---------------------------- MODULE Spec2Model ----------------------------
(***************************************************************************)
(* Citation-integrity pipeline of the AI journalist assistant:             *)
(*   app/services/draft_validator.py  (citation engine, compliance score)  *)
(*   app/services/retriever.py        (relevance filter)                   *)
(*   app/services/outline_agent.py    (parsing and ranking tool output)    *)
(*   app/services/draft_agent.py      (draft orchestration)                *)
(*   app/services/ideas.py, outline.py, draft.py  (archive-only tasks)     *)
(*   app/services/tools.py            (retrieval and web search tools)     *)
(*   app/api/endpoints/*.py           (HTTP outcome of a request)          *)
(*                                                                         *)
(* Conventions.                                                            *)
(*  - A Python str is a sequence of tokens.  A token is a one-character    *)
(*    string ("[", "7", " ", ...), or an atom that stands for a fixed      *)
(*    piece of text: "W<n>" is n plain lower-case words separated by       *)
(*    single spaces, and the banned-phrase atoms are single words or       *)
(*    phrases.  No atom contains a bracket, a digit, a newline, a          *)
(*    sentence terminator or a markdown marker.                            *)
(*  - Python's None is the integer NoneVal; scores are integers in         *)
(*    hundredths (0.75 is 75), so every comparison of the code is exact.   *)
(*  - A dict is a record; a key the dict lacks is a field the record       *)
(*    lacks.                                                               *)
(***************************************************************************)
EXTENDS Integers, Sequences, FiniteSets, TLC

VARIABLES
    pc,               \* position of the operation in progress
    draft,            \* draft text handed to the citation engine / the scorer
    sources,          \* numbered source list (list of dicts)
    tracking,         \* result of track_source_usage
    draft_expanded,   \* result of expand_citations
    compliance_score, \* result of validate_editorial_compliance (hundredths)
    word_count,       \* result of count_words on the expanded draft
    enable_web_search,\* the request's flag
    request_sources,  \* the sources argument as the caller passed it
    web_sources,      \* what the mandatory web search contributed
    sources_text,     \* the numbered list format_sources_for_prompt builds
    source_nodes,     \* candidates handed to filter_by_relevance
    min_score,        \* min_score argument of filter_by_relevance
    filter_result,    \* what filter_by_relevance returned or raised
    target_word_count,\* the draft request's target, after the clamp
    tool_results,     \* records an archive_retrieval tool call showed the agent
    warning_text,     \* the warning of the draft artifact
    task,             \* the service function that handles the request
    request,          \* the request's fields
    calls,            \* invocations of external capabilities, in order
    response,         \* text the generation capability produced
    archive_sources,  \* generate_outline_with_agent's archive_sources
    result,           \* what the service function returned or raised
    http,             \* what the endpoint answered
    parameter,        \* a numeric argument as the caller passed it
    effective,        \* the same argument after the clamp
    archive_output,   \* text archive_retrieval_tool_fn returned, as blocks
    _index,           \* retriever.py's module global _index
    handles,          \* every index get_index created: by whom, after which clears
    clears,           \* the clear_collection calls begun, each with its outcome
    collection_exists,\* whether the backend holds the collection
    threads           \* the calls in progress: position, locals, return value

citeVars == <<draft, sources, tracking, draft_expanded>>
scoreVars == <<compliance_score, word_count>>
requestVars == <<enable_web_search, request_sources, web_sources, sources_text>>
filterVars == <<source_nodes, min_score, filter_result>>

warningVars == <<target_word_count, tool_results, warning_text>>
serviceVars == <<task, request, calls, response, archive_sources, result, http>>

clampVars == <<parameter, effective>>
indexVars == <<_index, handles, clears, collection_exists, threads>>
laterVars == <<clampVars, archive_output, indexVars>>

vars ==
    <<pc, citeVars, scoreVars, requestVars, filterVars, warningVars, serviceVars,
      laterVars>>

\* Python None
NoneVal == 0 - 1

(***************************************************************************)
(* Bounds of the model                                                     *)
(***************************************************************************)
\* number of pieces a citation-engine input text is composed of
MaxPieces == 3
\* length of a numbered source list
MaxSources == 2
\* number of paragraphs of a text handed to the compliance scorer
MaxParagraphs == 3
\* number of candidates handed to filter_by_relevance
MaxNodes == 3
\* number of results the web search returns
MaxWebResults == 2
\* number of body paragraphs of a generated draft
MaxDraftParagraphs == 2
\* number of records one archive_retrieval tool call shows the agent
MaxToolResults == 1

(***************************************************************************)
(* Strings                                                                 *)
(***************************************************************************)
Digits == {"0", "1", "2", "3", "4", "5", "6", "7", "8", "9"}

\* int() of one decimal digit
DigitVal(c) ==
    CASE c = "0" -> 0 [] c = "1" -> 1 [] c = "2" -> 2 [] c = "3" -> 3
      [] c = "4" -> 4 [] c = "5" -> 5 [] c = "6" -> 6 [] c = "7" -> 7
      [] c = "8" -> 8 [] c = "9" -> 9

\* str() of one decimal digit
DigitChar(d) ==
    CASE d = 0 -> "0" [] d = 1 -> "1" [] d = 2 -> "2" [] d = 3 -> "3"
      [] d = 4 -> "4" [] d = 5 -> "5" [] d = 6 -> "6" [] d = 7 -> "7"
      [] d = 8 -> "8" [] d = 9 -> "9"

\* int(s) for a non-empty string of decimal digits (leading zeros allowed)
RECURSIVE ParseInt(_)
ParseInt(s) ==
    IF Len(s) = 0 THEN 0
    ELSE 10 * ParseInt(SubSeq(s, 1, Len(s) - 1)) + DigitVal(s[Len(s)])

\* str(n) for n >= 0, as the f-string formats {num}
RECURSIVE IntToStr(_)
IntToStr(n) ==
    IF n < 10 THEN <<DigitChar(n)>>
    ELSE IntToStr(n \div 10) \o <<DigitChar(n % 10)>>

\* dict.get(key, default)
DictGet(d, key, default) == IF key \in DOMAIN d THEN d[key] ELSE default

Unknown == <<"U", "n", "k", "n", "o", "w", "n">>

(***************************************************************************)
(* The pattern r'\[(\d+)\]' (draft_validator.py lines 43 and 199)          *)
(***************************************************************************)
\* last index of the maximal run of digits of t that starts at i (i-1 if none)
RECURSIVE DigitRunEnd(_, _)
DigitRunEnd(t, i) ==
    IF i <= Len(t) /\ t[i] \in Digits THEN DigitRunEnd(t, i + 1) ELSE i - 1

\* index of the closing bracket of a match that starts at i, 0 if none starts there
CitationMatchEnd(t, i) ==
    IF i <= Len(t) /\ t[i] = "["
    THEN LET j == DigitRunEnd(t, i + 1)
         IN  IF j >= i + 1 /\ j + 1 <= Len(t) /\ t[j + 1] = "]" THEN j + 1 ELSE 0
    ELSE 0

\* least element of a non-empty set of indices, 0 for the empty set
FirstOf(S) == IF S = {} THEN 0 ELSE CHOOSE j \in S : \A k \in S : j <= k

\* the scan from left to right: index at or after i where the next match
\* starts, 0 if none
NextCitation(t, i) == FirstOf({j \in i..Len(t) : CitationMatchEnd(t, j) > 0})

\* re.findall(pattern, t) from index i on: group 1 of the successive matches
RECURSIVE FindCitations(_, _)
FindCitations(t, i) ==
    LET m == NextCitation(t, i)
    IN  IF m = 0 THEN <<>>
        ELSE LET e == CitationMatchEnd(t, m)
             IN  <<SubSeq(t, m + 1, e - 1)>> \o FindCitations(t, e + 1)

\* extract_source_numbers: numbers = [int(n) for n in re.findall(pattern, draft)]
extract_source_numbers(text) ==
    LET found == FindCitations(text, 1)
    IN  [k \in 1..Len(found) |-> ParseInt(found[k])]

\* set(cited_numbers)
SeqToSet(s) == {s[k] : k \in 1..Len(s)}

(***************************************************************************)
(* track_source_usage                                                      *)
(***************************************************************************)
\* source.copy() followed by source_with_number['citation_number'] = i
WithCitationNumber(source, i) ==
    [k \in DOMAIN source \cup {"citation_number"} |->
        IF k = "citation_number" THEN i ELSE source[k]]

\* the loop of lines 155-162 over positions i..Len(available_sources)
RECURSIVE SplitSources(_, _, _)
SplitSources(available_sources, used_numbers, i) ==
    IF i > Len(available_sources)
    THEN [sources_used |-> <<>>, sources_available |-> <<>>]
    ELSE LET rest == SplitSources(available_sources, used_numbers, i + 1)
             source == available_sources[i]
         IN  IF i \in used_numbers
             THEN [sources_used |-> <<WithCitationNumber(source, i)>> \o rest.sources_used,
                   sources_available |-> rest.sources_available]
             ELSE [sources_used |-> rest.sources_used,
                   sources_available |-> <<source>> \o rest.sources_available]

\* the caller's list after a track_source_usage that writes citation_number
\* to the record itself instead of to the copy of line 157
available_sources_after_no_copy(text, available_sources) ==
    [i \in 1..Len(available_sources) |->
        IF i \in SeqToSet(extract_source_numbers(text))
        THEN WithCitationNumber(available_sources[i], i)
        ELSE available_sources[i]]

\* the caller's list after track_source_usage: lines 155-162 append to two
\* new lists and write citation_number to source.copy(), so the list and
\* its records are as before
available_sources_after(text, available_sources) == available_sources

\* track_source_usage with the else of line 161 lost: every source is
\* appended to sources_available
track_source_usage_no_else(text, available_sources) ==
    LET cited_numbers == extract_source_numbers(text)
        used_numbers == SeqToSet(cited_numbers)
        split == SplitSources(available_sources, used_numbers, 1)
    IN  [sources_used |-> split.sources_used,
         sources_available |-> available_sources,
         citation_count |-> Len(cited_numbers),
         unique_sources_count |-> Cardinality(used_numbers)]

track_source_usage(text, available_sources) ==
    LET cited_numbers == extract_source_numbers(text)
        used_numbers == SeqToSet(cited_numbers)
        split == SplitSources(available_sources, used_numbers, 1)
    IN  [sources_used |-> split.sources_used,
         sources_available |-> split.sources_available,
         citation_count |-> Len(cited_numbers),
         unique_sources_count |-> Cardinality(used_numbers)]

(***************************************************************************)
(* expand_citations                                                        *)
(***************************************************************************)
\* f"[{num}, {source_name}, {title}, {date}]"
FormatCitation(num, source) ==
    <<"[">> \o IntToStr(num) \o <<",", " ">>
        \o DictGet(source, "source", Unknown) \o <<",", " ">>
        \o DictGet(source, "title", Unknown) \o <<",", " ">>
        \o DictGet(source, "date", Unknown) \o <<"]">>

\* an exception that escapes the operation
IndexError == [error |-> "IndexError"]
Raised == <<"IndexError">>

\* list[idx] as Python evaluates it: a negative index counts from the end
PyListItem(list, idx) ==
    IF 0 <= idx /\ idx < Len(list) THEN list[idx + 1]
    ELSE IF 0 - Len(list) <= idx /\ idx < 0 THEN list[Len(list) + idx + 1]
    ELSE IndexError

\* replace_citation with the lower bound of the range check off by one
replace_citation_from_zero(matched, digits, srcs) ==
    LET num == ParseInt(digits)
    IN  IF 0 <= num /\ num <= Len(srcs)
        THEN LET source == PyListItem(srcs, num - 1)
             IN  IF source = IndexError THEN Raised ELSE FormatCitation(num, source)
        ELSE matched

\* replace_citation(match): matched is match.group(0), digits is match.group(1)
replace_citation(matched, digits, srcs) ==
    LET num == ParseInt(digits)
    IN  IF 1 <= num /\ num <= Len(srcs)
        THEN LET source == PyListItem(srcs, num - 1)
             IN  IF source = IndexError THEN Raised ELSE FormatCitation(num, source)
        ELSE matched

\* re.sub(pattern, replace_citation, draft) from index i on
RECURSIVE SubCitations(_, _, _)
SubCitations(t, srcs, i) ==
    LET m == NextCitation(t, i)
    IN  IF m = 0 THEN SubSeq(t, i, Len(t))
        ELSE LET e == CitationMatchEnd(t, m)
                 r == replace_citation(SubSeq(t, m, e), SubSeq(t, m + 1, e - 1), srcs)
                 rest == SubCitations(t, srcs, e + 1)
             IN  IF r = Raised \/ rest = Raised THEN Raised
                 ELSE SubSeq(t, i, m - 1) \o r \o rest

expand_citations(text, srcs) == SubCitations(text, srcs, 1)

(***************************************************************************)
(* Text measures                                                           *)
(***************************************************************************)
Whitespace == {" ", "\n"}
SentenceEnd == {".", "!", "?"}

\* number of words str.split() finds inside an atom; a one-character token
\* is (part of) one word
AtomWords(tok) ==
    CASE tok = "W5" -> 5 [] tok = "W12" -> 12 [] tok = "W17" -> 17
      [] tok = "W25" -> 25 [] tok = "W100" -> 100 [] tok = "W297" -> 297
      [] tok = "W300" -> 300 [] tok = "W500" -> 500
      [] tok = "you won't believe" -> 3
      [] OTHER -> 1

\* str.lower() of one token; only the atoms below have upper-case letters
\* that matter to a banned phrase
LowerToken(tok) ==
    CASE tok = "Amazing" -> "amazing" [] tok = "SHOCKING" -> "shocking"
      [] OTHER -> tok

\* s.strip() == ''
IsBlank(t) == \A i \in 1..Len(t) : t[i] \in Whitespace
NotBlank(t) == ~IsBlank(t)

\* s.startswith('#')
StartsWithHash(t) == Len(t) > 0 /\ t[1] = "#"

\* index of the first token of t at or after i that is in S, 0 if none
FirstIn(t, S, i) == FirstOf({j \in i..Len(t) : t[j] \in S})

\* last index of the run of tokens of S that starts at i
RECURSIVE RunEnd(_, _, _)
RunEnd(t, S, i) ==
    IF i + 1 <= Len(t) /\ t[i + 1] \in S THEN RunEnd(t, S, i + 1) ELSE i

\* t.split(sep) for a one-character separator
RECURSIVE SplitChar(_, _)
SplitChar(t, sep) ==
    LET i == FirstIn(t, {sep}, 1)
    IN  IF i = 0 THEN <<t>>
        ELSE <<SubSeq(t, 1, i - 1)>> \o SplitChar(SubSeq(t, i + 1, Len(t)), sep)

\* index of the first "\n\n" of t at or after i, 0 if none
FirstBlankLine(t, i) ==
    FirstOf({j \in i..(Len(t) - 1) : t[j] = "\n" /\ t[j + 1] = "\n"})

\* t.split('\n\n')
RECURSIVE SplitParagraphs(_)
SplitParagraphs(t) ==
    LET i == FirstBlankLine(t, 1)
    IN  IF i = 0 THEN <<t>>
        ELSE <<SubSeq(t, 1, i - 1)>> \o SplitParagraphs(SubSeq(t, i + 2, Len(t)))

\* re.split(r'[.!?]+', t)
RECURSIVE SplitSentences(_)
SplitSentences(t) ==
    LET i == FirstIn(t, SentenceEnd, 1)
    IN  IF i = 0 THEN <<t>>
        ELSE <<SubSeq(t, 1, i - 1)>>
                 \o SplitSentences(SubSeq(t, RunEnd(t, SentenceEnd, i) + 1, Len(t)))

\* [s.strip() for s in re.split(r'[.!?]+', t) if s.strip()]
Sentences(t) == SelectSeq(SplitSentences(t), NotBlank)

\* ' '.join(lines)
RECURSIVE JoinSpace(_)
JoinSpace(lines) ==
    IF Len(lines) = 0 THEN <<>>
    ELSE IF Len(lines) = 1 THEN lines[1]
    ELSE lines[1] \o <<" ">> \o JoinSpace(Tail(lines))

\* words of t.split() that token i adds: a token after whitespace (or the
\* first one) starts a word, a token after another token continues its word
WordsAt(t, i) ==
    IF t[i] \in Whitespace THEN 0
    ELSE (IF i > 1 /\ t[i - 1] \notin Whitespace THEN 0 ELSE 1)
             + (AtomWords(t[i]) - 1)

\* words of t.split() that the tokens lo..hi add
RECURSIVE SplitCount(_, _, _)
SplitCount(t, lo, hi) ==
    IF lo > hi THEN 0
    ELSE IF lo = hi THEN WordsAt(t, lo)
    ELSE LET mid == (lo + hi) \div 2
         IN  SplitCount(t, lo, mid) + SplitCount(t, mid + 1, hi)

\* len(t.split())
SplitLen(t) == SplitCount(t, 1, Len(t))

\* re.sub(r'#+\s', '', text) from index i on
\* a match of r'#+\s' starts at j: the run of "#" from j on is followed by
\* a whitespace character
HeaderAt(t, j) ==
    /\ t[j] = "#"
    /\ RunEnd(t, {"#"}, j) + 1 <= Len(t)
    /\ t[RunEnd(t, {"#"}, j) + 1] \in Whitespace

RECURSIVE StripHeaders(_, _)
StripHeaders(t, i) ==
    LET m == FirstOf({j \in i..Len(t) : HeaderAt(t, j)})
    IN  IF m = 0 THEN SubSeq(t, i, Len(t))
        ELSE SubSeq(t, i, m - 1) \o StripHeaders(t, RunEnd(t, {"#"}, m) + 2)

\* count_words.  The link, bold, italic and code patterns of lines 23-26
\* need "(", "*" or "`", which no token contains: they change nothing.
count_words(text) == SplitLen(StripHeaders(text, 1))

(***************************************************************************)
(* validate_editorial_compliance (scores in hundredths)                    *)
(***************************************************************************)
IsContentLine(line) == NotBlank(line) /\ ~StartsWithHash(line)

\* content = ' '.join(content_lines), lines 70-71
Content(text) == JoinSpace(SelectSeq(SplitChar(text, "\n"), IsContentLine))

RECURSIVE SumSplitLen(_)
SumSplitLen(ss) ==
    IF Len(ss) = 0 THEN 0 ELSE SplitLen(Head(ss)) + SumSplitLen(Tail(ss))

\* Check 1, lines 74-85: avg_sentence_length = total / n compared exactly
SentenceLengthPenalty(text) ==
    LET sentences == Sentences(Content(text))
        n == Len(sentences)
        total == SumSplitLen(sentences)
    IN  IF n = 0 THEN 0
        ELSE IF total < 10 * n \/ total > 30 * n THEN 20
        ELSE IF total < 15 * n \/ total > 20 * n THEN 10
        ELSE 0

IsBodyParagraph(p) == NotBlank(p) /\ ~StartsWithHash(p)

\* paragraphs, line 88
Paragraphs(text) == SelectSeq(SplitParagraphs(text), IsBodyParagraph)

\* paragraph_sentence_counts, lines 91-95
ParagraphSentenceCounts(text) ==
    LET paragraphs == Paragraphs(text)
    IN  [k \in 1..Len(paragraphs) |-> Len(Sentences(paragraphs[k]))]

\* Check 2, lines 98-102: very_short > len(paragraphs) * 0.3
ShortParagraphPenalty(text) ==
    LET counts == ParagraphSentenceCounts(text)
        very_short == Cardinality({k \in 1..Len(counts) : counts[k] < 2})
    IN  IF Len(counts) > 0 /\ 10 * very_short > 3 * Len(counts) THEN 15 ELSE 0

\* Check 2, lines 99-104: very_long > len(paragraphs) * 0.2
LongParagraphPenalty(text) ==
    LET counts == ParagraphSentenceCounts(text)
        very_long == Cardinality({k \in 1..Len(counts) : counts[k] > 6})
    IN  IF Len(counts) > 0 /\ 5 * very_long > Len(counts) THEN 15 ELSE 0

\* Check 3, lines 107-115: len(citation_numbers) / (word_count / 100) < 0.5
CitationDensityPenalty(text) ==
    LET citation_numbers == extract_source_numbers(text)
        wc == count_words(text)
    IN  IF wc > 500 /\ 200 * Len(citation_numbers) < wc THEN 20 ELSE 0

clickbait_words ==
    {"shocking", "amazing", "incredible", "unbelievable", "you won't believe"}

\* word in content_lower: a banned phrase occurs only as an atom
ContainsPhrase(content, word) ==
    \E i \in 1..Len(content) : LowerToken(content[i]) = word

\* Check 4, lines 118-124
ClickbaitPenalty(text) ==
    10 * Cardinality({w \in clickbait_words : ContainsPhrase(Content(text), w)})

Max(a, b) == IF a >= b THEN a ELSE b
Min(a, b) == IF a <= b THEN a ELSE b

\* validate_editorial_compliance without the clamp of line 127
validate_editorial_compliance_unclamped(text) ==
    100 - SentenceLengthPenalty(text) - ShortParagraphPenalty(text)
        - LongParagraphPenalty(text) - CitationDensityPenalty(text)
        - ClickbaitPenalty(text)

validate_editorial_compliance(text) ==
    LET score == 100 - SentenceLengthPenalty(text) - ShortParagraphPenalty(text)
                     - LongParagraphPenalty(text) - CitationDensityPenalty(text)
                     - ClickbaitPenalty(text)
    IN  Max(0, Min(100, score))

(***************************************************************************)
(* filter_by_relevance (retriever.py) and its settings (config.py)         *)
(***************************************************************************)
MIN_RELEVANCE_SCORE == 75
HIGH_RELEVANCE_THRESHOLD == 85

\* an exception that escapes filter_by_relevance
TypeError == [error |-> "TypeError"]

\* getattr(node, 'score', 0): the default is used only when the attribute is
\* absent; an attribute that is None is returned as None
NodeScore(node) == IF "score" \in DOMAIN node THEN node.score ELSE 0

\* max([getattr(node, 'score', 0) for node in nodes]) of a non-empty list
MaxScore(nodes) ==
    CHOOSE m \in {NodeScore(nodes[k]) : k \in 1..Len(nodes)} :
        \A k \in 1..Len(nodes) : NodeScore(nodes[k]) <= m

\* [node for node in nodes if getattr(node, 'score', 0) >= threshold]
RECURSIVE NodesAtLeast(_, _)
NodesAtLeast(nodes, threshold) ==
    IF Len(nodes) = 0 THEN <<>>
    ELSE (IF NodeScore(Head(nodes)) >= threshold THEN <<Head(nodes)>> ELSE <<>>)
             \o NodesAtLeast(Tail(nodes), threshold)

\* the warnings of lines 103, 111 and 118, and None
Warning(kind, best, threshold) ==
    [kind |-> kind, best |-> best, threshold |-> threshold]
NoWarning == Warning("none", NoneVal, NoneVal)

\* filter_by_relevance.  None >= min_score raises TypeError in the list
\* comprehension of line 106, which visits every node.
filter_by_relevance(nodes, min_score_arg) ==
    LET threshold ==
            IF min_score_arg = NoneVal THEN MIN_RELEVANCE_SCORE ELSE min_score_arg
    IN  IF Len(nodes) = 0
        THEN [filtered_nodes |-> <<>>,
              warning |-> Warning("no_sources", NoneVal, NoneVal)]
        ELSE IF \E k \in 1..Len(nodes) : NodeScore(nodes[k]) = NoneVal
        THEN TypeError
        ELSE LET filtered_nodes == NodesAtLeast(nodes, threshold)
             IN  IF Len(filtered_nodes) = 0
                 THEN [filtered_nodes |-> <<>>,
                       warning |-> Warning("no_relevant", MaxScore(nodes), threshold)]
                 ELSE IF MaxScore(filtered_nodes) < HIGH_RELEVANCE_THRESHOLD
                 THEN [filtered_nodes |-> filtered_nodes,
                       warning |-> Warning("limited", MaxScore(filtered_nodes), NoneVal)]
                 ELSE [filtered_nodes |-> filtered_nodes, warning |-> NoWarning]

(***************************************************************************)
(* extract_sources_from_tool_output (outline_agent.py)                     *)
(*                                                                         *)
(* A tool output is the sequence of its "---"-separated blocks; a block is *)
(* given by what the regular expressions of lines 55-76 find in it: title, *)
(* url, date and content (NoMatch when the pattern does not match) and the *)
(* relevance score (NoneVal when no number follows the label).             *)
(***************************************************************************)
\* re.search found nothing
NoMatch == <<"no match">>
Web == <<"W", "e", "b">>
NotApplicable == <<"N", "/", "A">>

\* lines 78-97 for a block of a web search output: the source name is the
\* domain of the URL, or "Web"
SourceOfBlock(block, source_type) ==
    [title |-> IF block.title = NoMatch THEN Unknown ELSE block.title,
     source |-> IF block.url = NoMatch THEN Web ELSE block.url,
     source_type |-> source_type,
     date |-> IF block.date = NoMatch THEN Unknown ELSE block.date,
     url |-> IF block.url = NoMatch THEN NotApplicable ELSE block.url,
     relevance_score |-> block.score,
     text |-> IF block.content = NoMatch THEN <<>> ELSE block.content]

\* x.get("relevance_score") or 0
ScoreOrZero(source) ==
    IF DictGet(source, "relevance_score", NoneVal) = NoneVal
    THEN 0 ELSE source.relevance_score

\* number of leading elements of a descending list whose key is >= key
RECURSIVE CountAtLeast(_, _)
CountAtLeast(sorted, key) ==
    IF Len(sorted) = 0 \/ ScoreOrZero(Head(sorted)) < key THEN 0
    ELSE 1 + CountAtLeast(Tail(sorted), key)

\* list.sort(key=lambda x: x.get("relevance_score") or 0, reverse=True):
\* stable, equal keys keep their order
RECURSIVE SortByScoreDesc(_)
SortByScoreDesc(list) ==
    IF Len(list) <= 1 THEN list
    ELSE LET front == SortByScoreDesc(SubSeq(list, 1, Len(list) - 1))
             last == list[Len(list)]
             k == CountAtLeast(front, ScoreOrZero(last))
         IN  SubSeq(front, 1, k) \o <<last>> \o SubSeq(front, k + 1, Len(front))

\* lines 47-100: the records of the blocks that have a title or a text
RECURSIVE SourcesOfBlocks(_, _)
SourcesOfBlocks(blocks, source_type) ==
    IF Len(blocks) = 0 THEN <<>>
    ELSE LET source == SourceOfBlock(Head(blocks), source_type)
         IN  (IF source.title # Unknown \/ source.text # <<>>
              THEN <<source>> ELSE <<>>)
                 \o SourcesOfBlocks(Tail(blocks), source_type)

extract_sources_from_tool_output(tool_output, source_type) ==
    SortByScoreDesc(SourcesOfBlocks(tool_output, source_type))

(***************************************************************************)
(* format_sources_for_prompt (draft_agent.py)                              *)
(***************************************************************************)
\* one "Source {i}:" entry of the list, lines 52-61
PromptEntry(i, source) ==
    [number |-> i,
     title |-> DictGet(source, "title", Unknown),
     source |-> DictGet(source, "source", Unknown),
     type |-> DictGet(source, "source_type", "unknown"),
     date |-> DictGet(source, "date", Unknown),
     url |-> DictGet(source, "url", NotApplicable),
     relevance |-> DictGet(source, "relevance_score", NoneVal),
     excerpt |-> DictGet(source, "text", <<>>)]

\* format_sources_for_prompt with enumerate(sources) left at its default start
format_sources_for_prompt_from_zero(srcs) ==
    [i \in 1..Len(srcs) |-> PromptEntry(i - 1, srcs[i])]

\* the entries in list order, numbered by enumerate(sources, 1); the empty
\* sequence stands for "No sources provided."
format_sources_for_prompt(srcs) ==
    [i \in 1..Len(srcs) |-> PromptEntry(i, srcs[i])]

(***************************************************************************)
(* The warnings of a draft artifact (draft_agent.py lines 152-155 and      *)
(* 355-381).  A message is the token sequence of its text; the warning is  *)
(* the messages joined by "; ", or None.                                   *)
(***************************************************************************)
\* Python None where a str is expected
NoneStr == <<"None">>

\* f"{score:.2f}" of a score given in hundredths
FormatScore(h) ==
    IntToStr(h \div 100) \o <<".", DigitChar((h \div 10) % 10), DigitChar(h % 10)>>

\* int(target_word_count * 0.9) and int(target_word_count * 1.1), lines 154-155
word_count_min(target) == (target * 9) \div 10
word_count_max(target) == (target * 11) \div 10

\* the word-count message with the checks against 1000 and 2000 left out
WordCountWarningsBandOnly(wc, target) ==
    IF wc < word_count_min(target) \/ wc > word_count_max(target)
    THEN << <<"Word count significantly different from target: ">>
               \o IntToStr(wc) \o <<" vs ">> \o IntToStr(target) >>
    ELSE <<>>

\* lines 357-362: at most one message about the word count
WordCountWarnings(wc, target) ==
    IF wc < 1000
    THEN << <<"Word count below minimum: ">> \o IntToStr(wc)
               \o <<" words (target: ">> \o IntToStr(target) \o <<")">> >>
    ELSE IF wc > 2000
    THEN << <<"Word count above maximum: ">> \o IntToStr(wc)
               \o <<" words (target: ">> \o IntToStr(target) \o <<")">> >>
    ELSE IF wc < word_count_min(target) \/ wc > word_count_max(target)
    THEN << <<"Word count significantly different from target: ">>
               \o IntToStr(wc) \o <<" vs ">> \o IntToStr(target) >>
    ELSE <<>>

\* line 375: sum(1 for s in sources_used if s.get('source_type') == 'web')
web_sources_cited(sources_used) ==
    Cardinality({i \in 1..Len(sources_used) :
                    /\ "source_type" \in DOMAIN sources_used[i]
                    /\ sources_used[i].source_type = "web"})

\* lines 364-371
SourceAndScoreWarnings(source_tracking, score) ==
    (IF source_tracking.unique_sources_count < 3
     THEN << <<"Low source diversity: only ">>
                \o IntToStr(source_tracking.unique_sources_count)
                \o <<" unique sources cited">> >>
     ELSE <<>>)
    \o (IF score < 70
        THEN << <<"Low editorial compliance score: ">> \o FormatScore(score) >>
        ELSE <<>>)
    \o (IF source_tracking.citation_count = 0
        THEN << <<"No citations found in draft - all claims must be cited">> >>
        ELSE <<>>)

WebNotCited ==
    <<"Web search was enabled but no web sources were cited in the draft">>

\* the warnings list with the guard of line 374 lost: the web check is made
\* whether or not web search was enabled
draft_warnings_web_check_always(wc, target, source_tracking, score, web_enabled) ==
    WordCountWarnings(wc, target)
        \o SourceAndScoreWarnings(source_tracking, score)
        \o (IF web_sources_cited(source_tracking.sources_used) = 0
            THEN <<WebNotCited>> ELSE <<>>)

\* the warnings list of lines 356-379
draft_warnings(wc, target, source_tracking, score, web_enabled) ==
    WordCountWarnings(wc, target)
        \o SourceAndScoreWarnings(source_tracking, score)
        \o (IF web_enabled /\ web_sources_cited(source_tracking.sources_used) = 0
            THEN <<WebNotCited>> ELSE <<>>)

\* "; ".join(warnings)
RECURSIVE JoinSemicolon(_)
JoinSemicolon(warnings) ==
    IF Len(warnings) = 0 THEN <<>>
    ELSE IF Len(warnings) = 1 THEN warnings[1]
    ELSE warnings[1] \o <<"; ">> \o JoinSemicolon(Tail(warnings))

\* line 381
WarningText(warnings) ==
    IF Len(warnings) > 0 THEN JoinSemicolon(warnings) ELSE NoneStr

(***************************************************************************)
(* Inputs of the citation engine                                           *)
(***************************************************************************)
\* a plain archive record as Source.dict() gives it (citation_number: None)
SourceA ==
    [title |-> <<"T">>, source |-> <<"S">>, source_type |-> "archive",
     date |-> <<"D">>, url |-> <<"u">>, relevance_score |-> 90,
     text |-> <<"x">>, citation_number |-> NoneVal]

\* a web record as extract_sources_from_tool_output builds it (no
\* citation_number key) whose title itself contains a bracketed number
SourceB ==
    [title |-> <<"[", "1", "]">>, source |-> <<"w">>, source_type |-> "web",
     date |-> <<"D">>, url |-> <<"u">>, relevance_score |-> 80,
     text |-> <<"x">>]

\* a record without a score that the client sent with a stale citation_number
SourceC ==
    [title |-> <<"V">>, source |-> <<"S">>, source_type |-> "archive",
     date |-> <<"E">>, url |-> <<"u">>, relevance_score |-> NoneVal,
     text |-> <<"x">>, citation_number |-> 5]

SourcePool == {SourceA, SourceB, SourceC}

RECURSIVE SeqsUpTo(_, _)
SeqsUpTo(S, n) ==
    IF n = 0 THEN {<<>>}
    ELSE LET shorter == SeqsUpTo(S, n - 1)
         IN  shorter \cup {s \o <<x>> : s \in shorter, x \in S}

\* pieces a text is composed of: whole citations (in range, out of range,
\* zero) and the fragments that make malformed or longer ones
Pieces ==
    { <<"[", "1", "]">>, <<"[", "2", "]">>, <<"[", "0", "]">>, <<"[", "7", "]">>,
      <<"[">>, <<"]">>, <<"1">>, <<"x">> }

RECURSIVE TextsUpTo(_)
TextsUpTo(n) ==
    IF n = 0 THEN {<<>>}
    ELSE LET shorter == TextsUpTo(n - 1)
         IN  shorter \cup {s \o p : s \in shorter, p \in Pieces}

(***************************************************************************)
(* The citation engine applied to one text and one source list             *)
(***************************************************************************)
NoTracking ==
    [sources_used |-> <<>>, sources_available |-> <<>>,
     citation_count |-> NoneVal, unique_sources_count |-> NoneVal]

\* values of the variables an operation does not use
ScoreIdle == compliance_score = NoneVal /\ word_count = NoneVal
RequestIdle ==
    /\ enable_web_search = FALSE /\ request_sources = <<>>
    /\ web_sources = <<>> /\ sources_text = <<>>
FilterIdle == source_nodes = <<>> /\ min_score = NoneVal /\ filter_result = NoneVal
CiteIdle ==
    /\ draft = <<>> /\ sources = <<>>
    /\ tracking = NoTracking /\ draft_expanded = <<>>
WarningIdle ==
    target_word_count = NoneVal /\ tool_results = <<>> /\ warning_text = NoneStr
NoResult == [kind |-> "none"]
NoAnswer == [status |-> 0]
ServiceIdle ==
    /\ task = "none" /\ request = [fields |-> "none"] /\ calls = <<>>
    /\ response = "" /\ archive_sources = <<>>
    /\ result = NoResult /\ http = NoAnswer

ClampIdle == parameter = NoneVal /\ effective = NoneVal
IndexIdle ==
    /\ _index = NoneVal /\ handles = <<>> /\ clears = <<>>
    /\ collection_exists = FALSE /\ threads = <<>>
LaterIdle == ClampIdle /\ archive_output = <<>> /\ IndexIdle

InitCite ==
    /\ LaterIdle
    /\ pc = "cite_input"
    /\ draft \in TextsUpTo(MaxPieces)
    /\ sources \in SeqsUpTo(SourcePool, MaxSources)
    /\ tracking = NoTracking
    /\ draft_expanded = <<>>
    /\ ScoreIdle
    /\ RequestIdle
    /\ FilterIdle
    /\ WarningIdle
    /\ ServiceIdle

TrackSourceUsage ==
    /\ pc = "cite_input"
    /\ tracking' = track_source_usage(draft, sources)
    /\ pc' = "cite_tracked"
    /\ UNCHANGED <<draft, sources, draft_expanded, scoreVars, requestVars, filterVars>>
    /\ UNCHANGED <<warningVars, serviceVars>>
    /\ UNCHANGED laterVars

ExpandCitations ==
    /\ pc = "cite_tracked"
    /\ draft_expanded' = expand_citations(draft, sources)
    /\ pc' = "cite_expanded"
    /\ UNCHANGED <<draft, sources, tracking, scoreVars, requestVars, filterVars>>
    /\ UNCHANGED <<warningVars, serviceVars>>
    /\ UNCHANGED laterVars

NextCite == TrackSourceUsage \/ ExpandCitations

SpecCite == InitCite /\ [][NextCite]_vars

(***************************************************************************)
(* validate_editorial_compliance and count_words applied to one text       *)
(***************************************************************************)
RECURSIVE Repeat(_, _)
Repeat(t, n) == IF n = 0 THEN <<>> ELSE t \o Repeat(t, n - 1)

\* three sentences of 17 words
PIdeal == <<"W17", ".", " ", "W17", ".", " ", "W17", ".">>
\* two sentences of 17 words, each followed by a citation
PCited ==
    <<"W17", " ", "[", "1", "]", ".", " ", "W17", " ", "[", "2", "]", ".">>
\* one sentence
PShort == <<"W25", "!">>
\* seven sentences of 5 words
PLong == Repeat(<<"W5", ".", " ">>, 7)
\* one sentence of 300 words without a citation
PBulk == <<"W300", ".">>
\* one sentence of 300 words, three of them citations
PBulkCited ==
    <<"W297", " ", "[", "1", "]", " ", "[", "2", "]", " ", "[", "7", "]", ".">>
\* two sentences of 100 words
PMid == <<"W100", ".", " ", "W100", "?">>
\* the five banned phrases, in seven short sentences
PClick ==
    <<"Amazing", " ", "W5", ".", " ", "SHOCKING", ".", " ", "incredible", ".",
      " ", "unbelievable", ".", " ", "you won't believe", ".", " ", "W5", ".",
      " ", "W5", ".">>
\* a heading
PHeading == <<"#", "#", " ", "W5">>
\* a heading line and a body line in one paragraph
PHeadBody == <<"#", " ", "x", "\n", "W12", ".">>

ParagraphPool ==
    {PIdeal, PCited, PShort, PLong, PBulk, PBulkCited, PMid, PClick, PHeading,
     PHeadBody}

\* '\n\n'.join(paragraphs)
RECURSIVE JoinParagraphs(_)
JoinParagraphs(ps) ==
    IF Len(ps) = 0 THEN <<>>
    ELSE IF Len(ps) = 1 THEN ps[1]
    ELSE ps[1] \o <<"\n", "\n">> \o JoinParagraphs(Tail(ps))

ScoreTexts == {JoinParagraphs(ps) : ps \in SeqsUpTo(ParagraphPool, MaxParagraphs)}

InitScore ==
    /\ LaterIdle
    /\ pc = "score_input"
    /\ draft \in ScoreTexts
    /\ sources = <<>>
    /\ tracking = NoTracking
    /\ draft_expanded = <<>>
    /\ ScoreIdle
    /\ RequestIdle
    /\ FilterIdle
    /\ WarningIdle
    /\ ServiceIdle

CountWords ==
    /\ pc = "score_input"
    /\ word_count' = count_words(draft)
    /\ pc' = "score_counted"
    /\ UNCHANGED <<citeVars, compliance_score, requestVars, filterVars>>
    /\ UNCHANGED <<warningVars, serviceVars>>
    /\ UNCHANGED laterVars

ValidateEditorialCompliance ==
    /\ pc = "score_counted"
    /\ compliance_score' = validate_editorial_compliance(draft)
    /\ pc' = "scored"
    /\ UNCHANGED <<citeVars, word_count, requestVars, filterVars>>
    /\ UNCHANGED <<warningVars, serviceVars>>
    /\ UNCHANGED laterVars

NextScore == CountWords \/ ValidateEditorialCompliance

SpecScore == InitScore /\ [][NextScore]_vars

(***************************************************************************)
(* filter_by_relevance applied to one candidate list                       *)
(***************************************************************************)
\* candidates: scored below, at and above the two thresholds, with a score
\* attribute that is None, and without a score attribute
NodePool ==
    { [text |-> "a", score |-> 60], [text |-> "b", score |-> 75],
      [text |-> "c", score |-> 80], [text |-> "d", score |-> 85],
      [text |-> "e", score |-> 91], [text |-> "f", score |-> NoneVal],
      [text |-> "g"] }

\* min_score: None (the configured default), zero, and above the high threshold
MinScores == {NoneVal, 0, 80, 90}

InitFilter ==
    /\ LaterIdle
    /\ pc = "filter_input"
    /\ source_nodes \in SeqsUpTo(NodePool, MaxNodes)
    /\ min_score \in MinScores
    /\ filter_result = NoneVal
    /\ CiteIdle
    /\ ScoreIdle
    /\ RequestIdle
    /\ WarningIdle
    /\ ServiceIdle

FilterByRelevance ==
    /\ pc = "filter_input"
    /\ filter_result' = filter_by_relevance(source_nodes, min_score)
    /\ pc' = IF filter_result' = TypeError THEN "filter_raised" ELSE "filtered"
    /\ UNCHANGED <<source_nodes, min_score, citeVars, scoreVars, requestVars>>
    /\ UNCHANGED <<warningVars, serviceVars>>
    /\ UNCHANGED laterVars

NextFilter == FilterByRelevance

SpecFilter == InitFilter /\ [][NextFilter]_vars

(***************************************************************************)
(* generate_draft_with_agent from the mandatory web search on              *)
(* (draft_agent.py lines 188-353): web search, prompt, generation,         *)
(* citation tracking, expansion, word count, compliance score.  The        *)
(* statements before the search (argument validation, clamp of the word    *)
(* count, construction of the agent, lines 140-186) are not part of it.    *)
(***************************************************************************)
\* sources a request carries
RequestSourcePool == {SourceA, SourceC}

\* blocks of a web search output: a strong and a weak result, a result
\* without a score or a title, and a block with neither title nor content
WebBlockPool ==
    { [title |-> <<"H">>, url |-> <<"h">>, date |-> <<"D">>,
       content |-> <<"x">>, score |-> 95],
      [title |-> <<"L">>, url |-> <<"l">>, date |-> NoMatch,
       content |-> <<"x">>, score |-> 50],
      [title |-> NoMatch, url |-> NoMatch, date |-> NoMatch,
       content |-> <<"x">>, score |-> NoneVal],
      [title |-> NoMatch, url |-> <<"e">>, date |-> NoMatch,
       content |-> NoMatch, score |-> 70] }

\* web_search_tool_fn returned an error text: no block yields a source
WebSearchFailed == <<>>

headline == <<"W5">>

\* two sentences of about 500 words, the first with two citations of the
\* first sources and six of a seventh
PLongCited ==
    <<"W500", " ", "[", "1", "]", " ", "[", "2", "]">>
        \o Repeat(<<" ", "[", "7", "]">>, 6) \o <<".", " ", "W500", ".">>

\* body paragraphs of a generated draft
DraftParagraphPool == {PBulk, PBulkCited, PLongCited}

\* target_word_count after the clamp of lines 147-150
TargetWordCounts == {1000, 1500}

\* a record archive_retrieval_tool_fn shows the agent as "Source {i}"
\* (tools.py lines 40-55)
ToolRecordPool ==
    { [title |-> <<"X">>, source |-> <<"R">>, date |-> <<"F">>,
       url |-> <<"v">>, score |-> 88, text |-> <<"x">>] }

\* drafts that start with "# {headline}": clean_draft_response returns such
\* a draft as it is (lines 78-79)
GeneratedDrafts ==
    {<<"#", " ">> \o headline \o <<"\n", "\n">> \o JoinParagraphs(ps) :
        ps \in SeqsUpTo(DraftParagraphPool, MaxDraftParagraphs) \ {<<>>}}

InitDraft ==
    /\ LaterIdle
    /\ pc = "web_search"
    /\ enable_web_search \in BOOLEAN
    /\ request_sources \in SeqsUpTo(RequestSourcePool, MaxSources)
    /\ sources = request_sources
    /\ web_sources = <<>>
    /\ sources_text = <<>>
    /\ draft = <<>>
    /\ tracking = NoTracking
    /\ draft_expanded = <<>>
    /\ target_word_count \in TargetWordCounts
    /\ tool_results = <<>>
    /\ warning_text = NoneStr
    /\ ScoreIdle
    /\ FilterIdle
    /\ ServiceIdle

\* the list with the web sources put behind the supplied sources
sources_with_web_appended(web, supplied) ==
    IF web # <<>> THEN supplied \o web ELSE supplied

\* lines 199-201: if web_sources: sources = web_sources + sources
sources_with_web(web, supplied) ==
    IF web # <<>> THEN web \o supplied ELSE supplied

\* lines 188-206
MandatoryWebSearch ==
    /\ pc = "web_search"
    /\ \/ /\ enable_web_search
          /\ \E web_output \in SeqsUpTo(WebBlockPool, MaxWebResults) \cup {WebSearchFailed} :
               /\ web_sources' = extract_sources_from_tool_output(web_output, "web")
               /\ sources' = sources_with_web(web_sources', sources)
       \/ /\ ~enable_web_search
          /\ UNCHANGED <<web_sources, sources>>
    /\ pc' = "build_prompt"
    /\ UNCHANGED <<draft, tracking, draft_expanded, scoreVars, enable_web_search,
                   request_sources, sources_text, filterVars>>
    /\ UNCHANGED <<warningVars, serviceVars>>
    /\ UNCHANGED laterVars

\* lines 208-322
BuildPrompt ==
    /\ pc = "build_prompt"
    /\ sources_text' = format_sources_for_prompt(sources)
    /\ pc' = "generate"
    /\ UNCHANGED <<citeVars, scoreVars, enable_web_search, request_sources,
                   web_sources, filterVars>>
    /\ UNCHANGED <<warningVars, serviceVars>>
    /\ UNCHANGED laterVars

\* lines 328-335: the agent, which holds the archive_retrieval tool
\* (tools.py line 247), may call it and is shown its results numbered from 1
\* (tools.py line 40); it answers with a draft, which is cleaned
GenerateDraft ==
    /\ pc = "generate"
    /\ tool_results' \in SeqsUpTo(ToolRecordPool, MaxToolResults)
    /\ draft' \in GeneratedDrafts
    /\ pc' = "track"
    /\ UNCHANGED <<sources, tracking, draft_expanded, scoreVars, requestVars,
                   filterVars, target_word_count, warning_text, serviceVars>>
    /\ UNCHANGED laterVars

\* line 342
TrackDraft ==
    /\ pc = "track"
    /\ tracking' = track_source_usage(draft, sources)
    /\ sources' = available_sources_after(draft, sources)
    /\ pc' = "expand"
    /\ UNCHANGED <<draft, draft_expanded, scoreVars, requestVars, filterVars>>
    /\ UNCHANGED <<warningVars, serviceVars>>
    /\ UNCHANGED laterVars

\* line 346
ExpandDraft ==
    /\ pc = "expand"
    /\ draft_expanded' = expand_citations(draft, sources)
    /\ pc' = "score"
    /\ UNCHANGED <<draft, sources, tracking, scoreVars, requestVars, filterVars>>
    /\ UNCHANGED <<warningVars, serviceVars>>
    /\ UNCHANGED laterVars

\* the word count and the score taken on the draft as generated
ScoreDraftBeforeExpansion ==
    /\ pc = "score"
    /\ word_count' = count_words(draft)
    /\ compliance_score' = validate_editorial_compliance(draft)
    /\ pc' = "warn"
    /\ UNCHANGED <<citeVars, requestVars, filterVars>>
    /\ UNCHANGED <<warningVars, serviceVars>>
    /\ UNCHANGED laterVars

\* lines 349-353
ScoreDraft ==
    /\ pc = "score"
    /\ word_count' = count_words(draft_expanded)
    /\ compliance_score' = validate_editorial_compliance(draft_expanded)
    /\ pc' = "warn"
    /\ UNCHANGED <<citeVars, requestVars, filterVars>>
    /\ UNCHANGED <<warningVars, serviceVars>>
    /\ UNCHANGED laterVars

\* lines 355-381
AssembleWarnings ==
    /\ pc = "warn"
    /\ warning_text' =
           WarningText(draft_warnings(word_count, target_word_count, tracking,
                                      compliance_score, enable_web_search))
    /\ pc' = "done"
    /\ UNCHANGED <<citeVars, scoreVars, requestVars, filterVars,
                   target_word_count, tool_results, serviceVars>>
    /\ UNCHANGED laterVars

NextDraft ==
    \/ MandatoryWebSearch
    \/ BuildPrompt
    \/ GenerateDraft
    \/ TrackDraft
    \/ ExpandDraft
    \/ ScoreDraft
    \/ AssembleWarnings

SpecDraft == InitDraft /\ [][NextDraft]_vars

(***************************************************************************)
(* Requests: the five service functions and the three endpoints            *)
(*   generate_ideas (ideas.py), generate_outline (outline.py),             *)
(*   generate_draft (draft.py): the archive-only tasks;                    *)
(*   generate_outline_with_agent (outline_agent.py),                       *)
(*   generate_draft_with_agent (draft_agent.py, up to line 186).           *)
(* POST /ideas calls generate_ideas, POST /outlines calls                  *)
(* generate_outline_with_agent, POST /drafts calls                         *)
(* generate_draft_with_agent.                                              *)
(***************************************************************************)
ArchiveTasks == {"generate_ideas", "generate_outline", "generate_draft"}
AgentTasks == {"generate_outline_with_agent", "generate_draft_with_agent"}
EndpointTasks ==
    {"generate_ideas", "generate_outline_with_agent", "generate_draft_with_agent"}
Tasks == ArchiveTasks \cup AgentTasks

\* a str argument: empty or not
Strs == {"", "t"}

\* the fields of a request that matter to the service function
RequestsOf(t) ==
    CASE t = "generate_ideas" -> [topic : Strs, num_ideas : {0, 1, 3}]
      [] t = "generate_outline" -> [headline : Strs, thesis : Strs]
      [] t = "generate_draft" -> [topic : Strs, outline : Strs]
      [] t = "generate_outline_with_agent" ->
             [headline : Strs, thesis : Strs, enable_web_search : BOOLEAN]
      [] t = "generate_draft_with_agent" ->
             [headline : Strs, thesis : Strs, outline : Strs,
              enable_web_search : BOOLEAN]

\* RequiredFields of generate_draft_with_agent without the check of
\* lines 144-145
RequiredFieldsWithoutOutline(t) ==
    CASE t = "generate_ideas" -> <<"topic">>
      [] t = "generate_outline" -> <<"headline", "thesis">>
      [] t = "generate_draft" -> <<"topic", "outline">>
      [] t = "generate_outline_with_agent" -> <<"headline", "thesis">>
      [] t = "generate_draft_with_agent" -> <<"headline", "thesis">>

\* the arguments checked by `if not <argument>: raise ValueError`, in order
RequiredFields(t) ==
    CASE t = "generate_ideas" -> <<"topic">>
      [] t = "generate_outline" -> <<"headline", "thesis">>
      [] t = "generate_draft" -> <<"topic", "outline">>
      [] t = "generate_outline_with_agent" -> <<"headline", "thesis">>
      [] t = "generate_draft_with_agent" -> <<"headline", "thesis", "outline">>

EmptyMessage(field) ==
    CASE field = "topic" -> "Topic cannot be empty"
      [] field = "headline" -> "Headline cannot be empty"
      [] field = "thesis" -> "Thesis statement cannot be empty"
      [] field = "outline" -> "Outline cannot be empty"

\* the first checked argument that is empty, "" if none is
RECURSIVE FirstEmpty(_, _)
FirstEmpty(req, fields) ==
    IF Len(fields) = 0 THEN ""
    ELSE IF req[Head(fields)] = "" THEN Head(fields)
    ELSE FirstEmpty(req, Tail(fields))

\* an exception: its class, its text, and where it was raised (the raise
\* statements of the validation, a statement of the service code, or an
\* external capability)
Error(type, message, origin) ==
    [type |-> type, message |-> message, origin |-> origin]

\* what a failing backend raises: an exception of any class, a ValueError
\* (or a subclass of it) included
BackendErrors ==
    { Error("ValueError", "backend failure text", "capability"),
      Error("RuntimeError", "backend failure text", "capability") }

RaisedError(e) == [kind |-> "raised", error |-> e]
Returned(v) == [kind |-> "returned", value |-> v]

\* one invocation of an external capability: retrieval (vector store and
\* embedding), generation (language model), web_search
Call(capability, ok, given) ==
    [capability |-> capability, ok |-> ok, given |-> given]

\* candidates the retrieval returns
ServiceNodePool ==
    { [text |-> "a", score |-> 60], [text |-> "c", score |-> 80],
      [text |-> "e", score |-> 91], [text |-> "f", score |-> NoneVal],
      [text |-> "h", score |-> 95] }

(***************************************************************************)
(* Generator output and its parsing (ideas.py lines 124-152)               *)
(***************************************************************************)
IdeasJson == "{\"ideas\": [{\"headline\": \"h\"}]}"
\* the same inside a markdown code fence (the three backquotes written ~~~)
FencedIdeasJson == "~~~json {\"ideas\": [{\"headline\": \"h\"}]} ~~~"
TwoIdeasJson == "{\"ideas\": [{\"headline\": \"h\"}, {\"headline\": \"i\"}]}"
EmptyIdeasJson == "{\"ideas\": []}"
Prose == "Here are some ideas"
JsonArray == "[]"
JsonEmptyObject == "{}"
JsonIdeasNull == "{\"ideas\": null}"
JsonIdeasString == "{\"ideas\": \"x\"}"
GeneratedText == "generated text"
InsufficientText == "Insufficient sources found in archive"
\* what the query engine answers when it does not call the model
EmptyResponse == "Empty Response"

ResponsesOf(t) ==
    CASE t = "generate_ideas" ->
             {IdeasJson, FencedIdeasJson, TwoIdeasJson, EmptyIdeasJson, Prose,
              JsonArray,
              JsonEmptyObject, JsonIdeasNull, JsonIdeasString}
      [] t = "generate_outline_with_agent" -> {GeneratedText, InsufficientText}
      [] OTHER -> {GeneratedText}

\* lines 126-129: strip the markdown code fence
StripCodeFence(text) ==
    IF text = FencedIdeasJson THEN IdeasJson ELSE text

\* Python values json.loads returns
PyList(items) == [type |-> "list", items |-> items]
PyStr(chars) == [type |-> "str", chars |-> chars]
PyNone == [type |-> "NoneType"]
PyDict(keys, ideas) == [type |-> "dict", keys |-> keys, ideas |-> ideas]
JSONDecodeError == [type |-> "JSONDecodeError"]

json_loads(text) ==
    CASE text = IdeasJson -> PyDict({"ideas"}, PyList(<<"h">>))
      [] text = TwoIdeasJson -> PyDict({"ideas"}, PyList(<<"h", "i">>))
      [] text = EmptyIdeasJson -> PyDict({"ideas"}, PyList(<<>>))
      [] text = JsonArray -> PyList(<<>>)
      [] text = JsonEmptyObject -> PyDict({}, PyNone)
      [] text = JsonIdeasNull -> PyDict({"ideas"}, PyNone)
      [] text = JsonIdeasString -> PyDict({"ideas"}, PyStr(<<"x">>))
      [] OTHER -> JSONDecodeError

\* the dicts of the source_nodes list: getattr(node, 'score', None)
SourceNodeDicts(nodes) ==
    [k \in 1..Len(nodes) |->
        [text |-> nodes[k].text,
         relevance_score |->
             IF "score" \in DOMAIN nodes[k] THEN nodes[k].score ELSE NoneVal]]

\* f"Failed to parse structured response. {warning if warning else ''}"
ParseFailure(warning) == [kind |-> "parse_failure", filter_warning |-> warning]

(***************************************************************************)
(* The results of the archive-only tasks                                   *)
(***************************************************************************)
\* len(ideas_list)
HasLen(value) == value.type \in {"list", "str"}
PyLen(value) == IF value.type = "list" THEN Len(value.items) ELSE Len(value.chars)

\* ideas.py lines 107-168, after the query
generate_ideas_result(req, filtered_nodes, warning, response_text) ==
    IF Len(filtered_nodes) = 0
    THEN Returned([topic |-> req.topic, num_ideas |-> 0, ideas |-> PyList(<<>>),
                   source_nodes |-> <<>>, warning |-> warning])
    ELSE LET parsed_response == json_loads(StripCodeFence(response_text))
         IN  IF parsed_response = JSONDecodeError
             THEN Returned([topic |-> req.topic, num_ideas |-> 0,
                            ideas |-> PyList(<<>>),
                            source_nodes |-> SourceNodeDicts(filtered_nodes),
                            warning |-> ParseFailure(warning)])
             ELSE IF parsed_response.type # "dict"
             THEN RaisedError(Error("AttributeError", "no attribute 'get'", "code"))
             ELSE LET ideas_list ==
                          IF "ideas" \in parsed_response.keys
                          THEN parsed_response.ideas ELSE PyList(<<>>)
                  IN  IF ~HasLen(ideas_list)
                      THEN RaisedError(Error("TypeError", "has no len()", "code"))
                      ELSE Returned([topic |-> req.topic,
                                     num_ideas |-> PyLen(ideas_list),
                                     ideas |-> ideas_list,
                                     source_nodes |-> SourceNodeDicts(filtered_nodes),
                                     warning |-> warning])

\* the content of an outline or draft result: the explanatory message with
\* the filter's warning, or the generator's text
Insufficient(warning) == [kind |-> "insufficient", warning |-> warning]
Generated(text) == [kind |-> "generated", text |-> text]

\* generate_outline_result without the early return of lines 170-178
generate_outline_result_no_early_return(req, filtered_nodes, warning, response_text) ==
    Returned([headline |-> req.headline, thesis |-> req.thesis,
              outline |-> Generated(response_text),
              source_nodes |-> SourceNodeDicts(filtered_nodes),
              warning |-> warning])

\* outline.py lines 167-200, after the query
generate_outline_result(req, filtered_nodes, warning, response_text) ==
    IF Len(filtered_nodes) = 0
    THEN Returned([headline |-> req.headline, thesis |-> req.thesis,
                   outline |-> Insufficient(warning),
                   source_nodes |-> <<>>, warning |-> warning])
    ELSE Returned([headline |-> req.headline, thesis |-> req.thesis,
                   outline |-> Generated(response_text),
                   source_nodes |-> SourceNodeDicts(filtered_nodes),
                   warning |-> warning])

\* draft.py lines 101-134, after the query
generate_draft_result(req, filtered_nodes, warning, response_text) ==
    IF Len(filtered_nodes) = 0
    THEN Returned([topic |-> req.topic, draft |-> Insufficient(warning),
                   source_nodes |-> <<>>, warning |-> warning])
    ELSE Returned([topic |-> req.topic, draft |-> Generated(response_text),
                   source_nodes |-> SourceNodeDicts(filtered_nodes),
                   warning |-> warning])

(***************************************************************************)
(* The agent-based tasks                                                   *)
(***************************************************************************)
\* tools.py lines 40-55 read back by the patterns of outline_agent.py lines
\* 47-97: the record of a node the archive tool listed.  The nodes carry no
\* metadata, so the tool prints 'Unknown' and 'N/A'; the text is followed by
\* the three dots of line 52.
ArchiveSourceOfNode(node) ==
    [title |-> Unknown, source |-> Unknown, source_type |-> "archive",
     date |-> Unknown, url |-> NotApplicable,
     relevance_score |-> node.score,
     text |-> <<node.text, ".", ".", ".">>]

\* archive_retrieval_tool_fn followed by extract_sources_from_tool_output:
\* a TypeError of the filter is caught at tools.py line 64 and the error
\* text holds no source
ArchiveSourcesOf(nodes) ==
    LET filtered == filter_by_relevance(nodes, NoneVal)
    IN  IF filtered = TypeError THEN <<>>
        ELSE SortByScoreDesc(
                 [k \in 1..Len(filtered.filtered_nodes) |->
                     ArchiveSourceOfNode(filtered.filtered_nodes[k])])

\* what the agent did with its tools during chat(): each tool function
\* catches the exception of its backend and returns an error text
AgentToolCalls ==
    { <<>>,
      <<Call("retrieval", TRUE, <<>>)>>,
      <<Call("retrieval", FALSE, <<>>)>>,
      <<Call("web_search", TRUE, <<>>)>>,
      <<Call("web_search", FALSE, <<>>)>> }

\* the two lists joined with the web records first
all_sources_web_first(archive, web) == SortByScoreDesc(web \o archive)

\* outline_agent.py lines 267-268: all_sources = archive_sources +
\* web_sources, then all_sources.sort(...) by descending score
all_sources(archive, web) == SortByScoreDesc(archive \o web)

LimitedContent == <<"Limited relevant content found in archive. Consider adding more sources.">>

\* outline_agent.py lines 276-278
OutlineWarning(outline) ==
    IF outline = InsufficientText THEN LimitedContent ELSE NoneStr

\* tools.py lines 239-247: get_draft_tools takes no argument
get_draft_tools(kwargs) ==
    IF kwargs # {} THEN TypeError ELSE <<"archive_retrieval_tool">>

(***************************************************************************)
(* The endpoints (api/endpoints/ideas.py, outline.py, draft.py)            *)
(***************************************************************************)
GenericDetail(t) ==
    CASE t = "generate_ideas" -> "Error generating ideas"
      [] t = "generate_outline_with_agent" -> "Error generating outline"
      [] t = "generate_draft_with_agent" -> "Error generating draft"

\* try: return service(...); except ValueError as e: 400, detail=str(e);
\* except Exception: 500 with the fixed detail
endpoint_answer(t, res) ==
    IF res.kind = "returned" THEN [status |-> 200, detail |-> ""]
    ELSE IF res.error.type = "ValueError"
    THEN [status |-> 400, detail |-> res.error.message]
    ELSE [status |-> 500, detail |-> GenericDetail(t)]

(***************************************************************************)
(* Specification SpecService: one request from validation to the answer    *)
(***************************************************************************)
MaxRetrieved == 2

InitService ==
    /\ LaterIdle
    /\ pc = "validate"
    /\ task \in Tasks
    /\ request \in RequestsOf(task)
    /\ calls = <<>> /\ response = "" /\ archive_sources = <<>>
    /\ result = NoResult /\ http = NoAnswer
    /\ CiteIdle /\ ScoreIdle /\ RequestIdle /\ FilterIdle /\ WarningIdle

\* the `if not ...: raise ValueError(...)` statements that open every
\* service function
Validate ==
    /\ pc = "validate"
    /\ LET field == FirstEmpty(request, RequiredFields(task))
       IN  IF field # ""
           THEN /\ result' = RaisedError(Error("ValueError", EmptyMessage(field),
                                               "validation"))
                /\ pc' = "service_done"
           ELSE /\ result' = result
                /\ pc' = CASE task \in ArchiveTasks -> "retrieve"
                           [] task = "generate_outline_with_agent" -> "agent_chat"
                           [] task = "generate_draft_with_agent" -> "get_draft_tools"
    /\ UNCHANGED <<citeVars, scoreVars, requestVars, filterVars, warningVars,
                   task, request, calls, response, archive_sources, http>>
    /\ UNCHANGED laterVars

\* get_query_engine and the retrieval step of query_engine.query(query)
\* (ideas.py 84-104, outline.py 51-164, draft.py 43-98); an exception is
\* logged and raised again
QueryRetrieve ==
    /\ pc = "retrieve"
    /\ \/ \E e \in BackendErrors :
             /\ calls' = Append(calls, Call("retrieval", FALSE, <<>>))
             /\ result' = RaisedError(e)
             /\ pc' = "service_done"
             /\ UNCHANGED source_nodes
       \/ \E nodes \in SeqsUpTo(ServiceNodePool, MaxRetrieved) :
             /\ calls' = Append(calls, Call("retrieval", TRUE, <<>>))
             /\ source_nodes' = nodes
             /\ pc' = "synthesize"
             /\ UNCHANGED result
    /\ UNCHANGED <<citeVars, scoreVars, requestVars, min_score, filter_result,
                   warningVars, task, request, response, archive_sources, http>>
    /\ UNCHANGED laterVars

\* the synthesis step of the same query_engine.query(query): the language
\* model answers the prompt from the retrieved nodes.  Whether the engine
\* calls the model when nothing was retrieved is the engine's choice.
QuerySynthesize ==
    /\ pc = "synthesize"
    /\ \/ \E e \in BackendErrors :
             /\ calls' = Append(calls, Call("generation", FALSE, source_nodes))
             /\ result' = RaisedError(e)
             /\ pc' = "service_done"
             /\ UNCHANGED response
       \/ \E text \in ResponsesOf(task) :
             /\ calls' = Append(calls, Call("generation", TRUE, source_nodes))
             /\ response' = text
             /\ pc' = "filter"
             /\ UNCHANGED result
       \/ /\ Len(source_nodes) = 0
          /\ response' = EmptyResponse
          /\ pc' = "filter"
          /\ UNCHANGED <<calls, result>>
    /\ UNCHANGED <<citeVars, scoreVars, requestVars, filterVars, warningVars,
                   task, request, archive_sources, http>>
    /\ UNCHANGED laterVars

\* filtered_nodes, warning = filter_by_relevance(response.source_nodes)
\* (ideas.py 107, outline.py 167, draft.py 101)
ServiceFilter ==
    /\ pc = "filter"
    /\ filter_result' = filter_by_relevance(source_nodes, NoneVal)
    /\ IF filter_result' = TypeError
       THEN /\ result' = RaisedError(Error("TypeError", "'>=' not supported", "code"))
            /\ pc' = "service_done"
       ELSE /\ result' = result
            /\ pc' = "assemble"
    /\ UNCHANGED <<citeVars, scoreVars, requestVars, source_nodes, min_score,
                   warningVars, task, request, calls, response,
                   archive_sources, http>>
    /\ UNCHANGED laterVars

archive_task_result(t, req, filtered_nodes, warning, response_text) ==
    CASE t = "generate_ideas" ->
             generate_ideas_result(req, filtered_nodes, warning, response_text)
      [] t = "generate_outline" ->
             generate_outline_result(req, filtered_nodes, warning, response_text)
      [] t = "generate_draft" ->
             generate_draft_result(req, filtered_nodes, warning, response_text)

\* the rest of the archive-only service function
ServiceReturn ==
    /\ pc = "assemble"
    /\ result' = archive_task_result(task, request, filter_result.filtered_nodes,
                                     filter_result.warning, response)
    /\ pc' = "service_done"
    /\ UNCHANGED <<citeVars, scoreVars, requestVars, filterVars, warningVars,
                   task, request, calls, response, archive_sources, http>>
    /\ UNCHANGED laterVars

\* response = agent.chat(agent_prompt) (outline_agent.py 241): the agent
\* calls the language model and, as it chooses, its tools
OutlineAgentChat ==
    /\ pc = "agent_chat"
    /\ \/ \E e \in BackendErrors :
             /\ calls' = Append(calls, Call("generation", FALSE, <<>>))
             /\ result' = RaisedError(e)
             /\ pc' = "service_done"
             /\ UNCHANGED response
       \/ \E text \in ResponsesOf(task), tool_calls \in AgentToolCalls :
             /\ calls' = (calls \o tool_calls) \o <<Call("generation", TRUE, <<>>)>>
             /\ response' = text
             /\ pc' = "archive_sources"
             /\ UNCHANGED result
    /\ UNCHANGED <<citeVars, scoreVars, requestVars, filterVars, warningVars,
                   task, request, archive_sources, http>>
    /\ UNCHANGED laterVars

\* outline_agent.py 256-259: the archive is searched again for the records
OutlineArchiveSources ==
    /\ pc = "archive_sources"
    /\ \/ /\ calls' = Append(calls, Call("retrieval", FALSE, <<>>))
          /\ archive_sources' = <<>>
          /\ UNCHANGED source_nodes
       \/ \E nodes \in SeqsUpTo(ServiceNodePool, MaxRetrieved) :
             /\ calls' = Append(calls, Call("retrieval", TRUE, <<>>))
             /\ source_nodes' = nodes
             /\ archive_sources' = ArchiveSourcesOf(nodes)
    /\ pc' = "web_sources"
    /\ UNCHANGED <<citeVars, scoreVars, requestVars, min_score, filter_result,
                   warningVars, task, request, response, result, http>>
    /\ UNCHANGED laterVars

\* outline_agent.py 262-264: the web is searched, whatever the request says
OutlineWebSources ==
    /\ pc = "web_sources"
    /\ \/ /\ calls' = Append(calls, Call("web_search", FALSE, <<>>))
          /\ web_sources' = extract_sources_from_tool_output(WebSearchFailed, "web")
       \/ \E web_output \in SeqsUpTo(WebBlockPool, MaxWebResults) :
             /\ calls' = Append(calls, Call("web_search", TRUE, <<>>))
             /\ web_sources' = extract_sources_from_tool_output(web_output, "web")
    /\ pc' = "outline_return"
    /\ UNCHANGED <<citeVars, scoreVars, enable_web_search, request_sources,
                   sources_text, filterVars, warningVars, task, request,
                   response, archive_sources, result, http>>
    /\ UNCHANGED laterVars

\* outline_agent.py 267-288
OutlineReturn ==
    /\ pc = "outline_return"
    /\ sources' = all_sources(archive_sources, web_sources)
    /\ result' = Returned([headline |-> request.headline,
                           thesis |-> request.thesis,
                           outline |-> response,
                           sources |-> sources',
                           warning |-> OutlineWarning(response)])
    /\ pc' = "service_done"
    /\ UNCHANGED <<draft, tracking, draft_expanded, scoreVars, requestVars,
                   filterVars, warningVars, task, request, calls, response,
                   archive_sources, http>>
    /\ UNCHANGED laterVars

\* draft_agent.py 147-178: the clamp, the language model object, and
\* tools = get_draft_tools(enable_web_search=enable_web_search)
GetDraftTools ==
    /\ pc = "get_draft_tools"
    /\ LET tools == get_draft_tools({"enable_web_search"})
       IN  IF tools = TypeError
           THEN /\ result' = RaisedError(Error("TypeError",
                                 "unexpected keyword argument", "code"))
                /\ pc' = "service_done"
           ELSE /\ result' = result
                /\ pc' = "web_search"
    /\ UNCHANGED <<citeVars, scoreVars, requestVars, filterVars, warningVars,
                   task, request, calls, response, archive_sources, http>>
    /\ UNCHANGED laterVars

\* the endpoint function around the service call
Endpoint ==
    /\ pc = "service_done"
    /\ task \in EndpointTasks
    /\ http' = endpoint_answer(task, result)
    /\ pc' = "answered"
    /\ UNCHANGED <<citeVars, scoreVars, requestVars, filterVars, warningVars,
                   task, request, calls, response, archive_sources, result>>
    /\ UNCHANGED laterVars

NextService ==
    \/ Validate
    \/ QueryRetrieve
    \/ QuerySynthesize
    \/ ServiceFilter
    \/ ServiceReturn
    \/ OutlineAgentChat
    \/ OutlineArchiveSources
    \/ OutlineWebSources
    \/ OutlineReturn
    \/ GetDraftTools
    \/ Endpoint

SpecService == InitService /\ [][NextService]_vars

(***************************************************************************)
(* Specification SpecClamp: the numeric arguments of generate_ideas,       *)
(* generate_draft and generate_draft_with_agent, and the word-count        *)
(* warning of a draft                                                      *)
(***************************************************************************)
\* ideas.py lines 31-34
clamp_num_ideas(n) == IF n < 1 THEN 3 ELSE IF n > 5 THEN 5 ELSE n

\* draft.py lines 34-37
clamp_word_count(n) == IF n < 500 THEN 500 ELSE IF n > 2000 THEN 2000 ELSE n

\* draft_agent.py lines 148-151
clamp_target_word_count(n) ==
    IF n < 1000 THEN 1000 ELSE IF n > 2000 THEN 2000 ELSE n

ClampTasks == {"generate_ideas", "generate_draft", "generate_draft_with_agent"}

\* the clamp of the task's numeric argument
clamp(t, n) ==
    CASE t = "generate_ideas" -> clamp_num_ideas(n)
      [] t = "generate_draft" -> clamp_word_count(n)
      [] t = "generate_draft_with_agent" -> clamp_target_word_count(n)

\* values a caller passes: inside, at and beyond the ends of each range
ParametersOf(t) ==
    CASE t = "generate_ideas" -> (0 - 2)..8
      [] t = "generate_draft" ->
             {0 - 5, 0, 499, 500, 501, 1500, 1999, 2000, 2001, 3000}
      [] t = "generate_draft_with_agent" ->
             {0 - 5, 0, 999, 1000, 1001, 1005, 1500, 1999, 2000, 2001, 2500}

\* word counts of an expanded draft around the ends of the ranges and bands
WordCounts ==
    {0, 899, 900, 903, 904, 905, 950, 999, 1000, 1100, 1105, 1106, 1349, 1350,
     1650, 1651, 1799, 1800, 2000, 2001, 2200, 2201}

InitClamp ==
    /\ pc = "clamp"
    /\ task \in ClampTasks
    /\ parameter \in ParametersOf(task)
    /\ effective = NoneVal
    /\ archive_output = <<>> /\ IndexIdle
    /\ request = [fields |-> "none"] /\ calls = <<>>
    /\ response = "" /\ archive_sources = <<>>
    /\ result = NoResult /\ http = NoAnswer
    /\ CiteIdle /\ ScoreIdle /\ RequestIdle /\ FilterIdle /\ WarningIdle

\* the if/elif that reassigns the argument
ClampParameter ==
    /\ pc = "clamp"
    /\ effective' = clamp(task, parameter)
    /\ pc' = IF task = "generate_draft_with_agent" THEN "count" ELSE "clamped"
    /\ UNCHANGED <<citeVars, scoreVars, requestVars, filterVars, warningVars,
                   serviceVars, parameter, archive_output, indexVars>>

\* draft_agent.py lines 349 and 356-362 for a draft of some length: the
\* word-count part of the warnings list, joined as line 381 joins it
WordCountWarning ==
    /\ pc = "count"
    /\ \E wc \in WordCounts :
          /\ word_count' = wc
          /\ warning_text' = WarningText(WordCountWarnings(wc, effective))
    /\ pc' = "warned"
    /\ UNCHANGED <<citeVars, compliance_score, requestVars, filterVars,
                   target_word_count, tool_results, serviceVars, laterVars>>

NextClamp == ClampParameter \/ WordCountWarning

SpecClamp == InitClamp /\ [][NextClamp]_vars

(***************************************************************************)
(* Claims about the citation engine (SpecCite)                             *)
(***************************************************************************)
CiteTracked == pc \in {"cite_tracked", "cite_expanded"}

\* the members of mask among i..n, in increasing order
RECURSIVE PositionsIn(_, _, _)
PositionsIn(mask, i, n) ==
    IF i > n THEN <<>>
    ELSE (IF i \in mask THEN <<i>> ELSE <<>>) \o PositionsIn(mask, i + 1, n)

WithoutCitationNumber(r) == [k \in DOMAIN r \ {"citation_number"} |-> r[k]]

\* C2: sources_used and sources_available partition the fused list: some set
\* of positions makes up sources_used (each record the original with
\* citation_number set to its position), the other positions make up
\* sources_available (the original records), both in the fused order; for
\* empty text and an empty list both lists are empty and both counts are 0.
C2_Partition ==
    CiteTracked =>
        LET n == Len(sources)
            used == tracking.sources_used
            avail == tracking.sources_available
        IN  /\ \E mask \in SUBSET (1..n) :
                 LET up == PositionsIn(mask, 1, n)
                     ap == PositionsIn((1..n) \ mask, 1, n)
                 IN  /\ Len(used) = Len(up)
                     /\ Len(avail) = Len(ap)
                     /\ \A k \in 1..Len(up) :
                          /\ used[k].citation_number = up[k]
                          /\ WithoutCitationNumber(used[k])
                                 = WithoutCitationNumber(sources[up[k]])
                     /\ \A k \in 1..Len(ap) : avail[k] = sources[ap[k]]
            /\ (draft = <<>> /\ sources = <<>>) =>
                 /\ used = <<>> /\ avail = <<>>
                 /\ tracking.citation_count = 0
                 /\ tracking.unique_sources_count = 0

\* a tracked text that cites one source of two and leaves the other unused
C2_Witness ==
    /\ pc = "cite_tracked"
    /\ Len(tracking.sources_used) = 1
    /\ Len(tracking.sources_available) = 1

\* C3: unique_sources_count == len(sources_used), for every text, also one
\* that cites numbers outside 1..len(sources).
C3_UniqueCountIsUsedLength ==
    CiteTracked => tracking.unique_sources_count = Len(tracking.sources_used)

\* C4: expand(expand(text, sources), sources) == expand(text, sources), and
\* a text without any [N] is returned unchanged.
C4_ExpandIdempotent ==
    pc = "cite_expanded" =>
        /\ expand_citations(draft_expanded, sources) = draft_expanded
        /\ (extract_source_numbers(draft) = <<>> => draft_expanded = draft)

\* C5: a citation [N] with N < 1 or N > len(sources) stays as it is in the
\* expanded text and puts no source into sources_used, neither operation
\* raises, and a citation in range in the same text is expanded to
\* [N, source, title, date] and its source is in sources_used with number N.
C5_OutOfRangeUntouched ==
    pc = "cite_expanded" =>
        /\ draft_expanded # Raised
        /\ \A i \in 1..Len(draft) :
             LET e == CitationMatchEnd(draft, i)
             IN  e > 0 =>
                 LET num == ParseInt(SubSeq(draft, i + 1, e - 1))
                     before == expand_citations(SubSeq(draft, 1, i - 1), sources)
                     after == expand_citations(SubSeq(draft, e + 1, Len(draft)), sources)
                     used == tracking.sources_used
                 IN  IF num < 1 \/ num > Len(sources)
                     THEN /\ draft_expanded = before \o SubSeq(draft, i, e) \o after
                          /\ \A k \in 1..Len(used) : used[k].citation_number # num
                     ELSE /\ draft_expanded
                                = before \o FormatCitation(num, sources[num]) \o after
                          /\ \E k \in 1..Len(used) :
                               /\ used[k].citation_number = num
                               /\ WithoutCitationNumber(used[k])
                                      = WithoutCitationNumber(sources[num])

\* an expanded text that cites [0], a number above the list and one in range
C5_Witness ==
    /\ pc = "cite_expanded"
    /\ Len(sources) = 2
    /\ LET cited == SeqToSet(extract_source_numbers(draft))
       IN  0 \in cited /\ 7 \in cited /\ 2 \in cited
    /\ draft_expanded # draft

(***************************************************************************)
(* Claims about the compliance score (SpecScore)                           *)
(***************************************************************************)
\* the distinct banned phrases that occur in the content of text
BannedPresent(text) ==
    {LowerToken(Content(text)[i]) : i \in 1..Len(Content(text))} \cap clickbait_words

\* C9: the score is within [0, 1] and equals 1.0 minus the triggered
\* penalties (sentence length 0.2 or 0.1 but never both, short paragraphs
\* 0.15, long paragraphs 0.15, citation density 0.2, 0.1 per distinct banned
\* phrase present), clamped to [0, 1].
C9_ScoreIsClampedSum ==
    pc = "scored" =>
        LET sl == SentenceLengthPenalty(draft)
            sp == ShortParagraphPenalty(draft)
            lp == LongParagraphPenalty(draft)
            cd == CitationDensityPenalty(draft)
            cb == 10 * Cardinality(BannedPresent(draft))
            sum == sl + sp + lp + cd + cb
        IN  /\ 0 <= compliance_score /\ compliance_score <= 100
            /\ sl \in {0, 10, 20}
            /\ sp \in {0, 15} /\ lp \in {0, 15} /\ cd \in {0, 20}
            /\ compliance_score
                   = (IF sum >= 100 THEN 0 ELSE 100 - sum)

\* a text whose penalties add up to more than 1.0: the clamp decides
C9_Witness ==
    /\ pc = "scored"
    /\ compliance_score = 0
    /\ SentenceLengthPenalty(draft) = 20
    /\ ShortParagraphPenalty(draft) = 15
    /\ LongParagraphPenalty(draft) = 15
    /\ CitationDensityPenalty(draft) = 20
    /\ Cardinality(BannedPresent(draft)) = 5

(***************************************************************************)
(* Claims about the relevance filter (SpecFilter)                          *)
(***************************************************************************)
\* the score the specification gives a candidate: absent or None counts as 0
EffectiveScore(node) ==
    IF "score" \in DOMAIN node /\ node.score # NoneVal THEN node.score ELSE 0

EffectiveThreshold ==
    IF min_score = NoneVal THEN MIN_RELEVANCE_SCORE ELSE min_score

EffectiveScores == {EffectiveScore(source_nodes[k]) : k \in 1..Len(source_nodes)}

\* the candidates whose effective score reaches the threshold, in input order
RECURSIVE ExpectedKept(_, _)
ExpectedKept(nodes, threshold) ==
    IF Len(nodes) = 0 THEN <<>>
    ELSE (IF EffectiveScore(Head(nodes)) >= threshold THEN <<Head(nodes)>> ELSE <<>>)
             \o ExpectedKept(Tail(nodes), threshold)

FilterCalled == pc \in {"filtered", "filter_raised"}

\* C6: every call is classified in exactly one way: empty iff the input is
\* empty; below_threshold (best score over all inputs and the threshold in
\* the warning) iff the input is non-empty and every score is below
\* min_score; marginal iff some score reaches min_score and the best kept
\* score is below HIGH_RELEVANCE_THRESHOLD; good (warning None) otherwise;
\* nothing is kept in the first two cases, something in the last two.
C6_OneClassification ==
    FilterCalled =>
        /\ filter_result # TypeError
        /\ LET kept == filter_result.filtered_nodes
               w == filter_result.warning
               allBelow == \A x \in EffectiveScores : x < EffectiveThreshold
               bestKept ==
                   CHOOSE m \in EffectiveScores : \A x \in EffectiveScores : x <= m
           IN  /\ w.kind \in {"no_sources", "no_relevant", "limited", "none"}
               /\ (w.kind = "no_sources") <=> (source_nodes = <<>>)
               /\ (w.kind = "no_relevant") <=> (source_nodes # <<>> /\ allBelow)
               /\ (w.kind = "limited") <=>
                      (source_nodes # <<>> /\ ~allBelow
                          /\ bestKept < HIGH_RELEVANCE_THRESHOLD)
               /\ (w.kind = "none") <=>
                      (source_nodes # <<>> /\ ~allBelow
                          /\ bestKept >= HIGH_RELEVANCE_THRESHOLD)
               /\ (w.kind \in {"no_sources", "no_relevant"}) <=> (kept = <<>>)
               /\ (w.kind = "no_relevant") =>
                      (w.best = bestKept /\ w.threshold = EffectiveThreshold)

\* C7: the kept list is exactly the candidates with score >= min_score (a
\* score equal to min_score is kept), in their original order.
C7_KeptIsThresholdFilter ==
    FilterCalled =>
        /\ filter_result # TypeError
        /\ filter_result.filtered_nodes = ExpectedKept(source_nodes, EffectiveThreshold)

\* C8: filter_by_relevance never raises, also for a candidate without a
\* score attribute or with a score attribute that is None; such a candidate
\* is treated as having score 0.
C8_NeverRaises ==
    FilterCalled =>
        /\ filter_result # TypeError
        /\ \A k \in 1..Len(source_nodes) :
             EffectiveScore(source_nodes[k]) = 0 =>
                 ((\E j \in 1..Len(filter_result.filtered_nodes) :
                       filter_result.filtered_nodes[j] = source_nodes[k])
                  <=> (0 >= EffectiveThreshold))

(***************************************************************************)
(* Claims about the draft pipeline (SpecDraft)                             *)
(***************************************************************************)
PromptBuilt == pc \in {"generate", "track", "expand", "score", "warn", "done"}

\* the relevance an entry of the prompt shows, a missing score counted as 0
ShownScore(entry) == IF entry.relevance = NoneVal THEN 0 ELSE entry.relevance

C10_DensityPenaltyByTrackedCitations ==
    pc = "warn" =>
        LET expected ==
                IF word_count > 500 /\ 200 * tracking.citation_count < word_count
                THEN 20 ELSE 0
            others == SentenceLengthPenalty(draft_expanded)
                          + ShortParagraphPenalty(draft_expanded)
                          + LongParagraphPenalty(draft_expanded)
                          + ClickbaitPenalty(draft_expanded)
        IN  /\ CitationDensityPenalty(draft_expanded) = expected
            /\ compliance_score = Max(0, 100 - others - expected)

(***************************************************************************)
(* Claims about the warning of the draft artifact (SpecDraft)              *)
(***************************************************************************)
\* the condition a message of the warning reports, read off its first words
MessageKind(message) ==
    CASE message[1] \in {"Word count below minimum: ",
                         "Word count above maximum: ",
                         "Word count significantly different from target: "}
             -> "word count"
      [] message[1] = "Low source diversity: only " -> "diversity"
      [] message[1] = "Low editorial compliance score: " -> "compliance"
      [] message[1] = "No citations found in draft - all claims must be cited"
             -> "citations"
      [] message[1] = "Web search was enabled but no web sources were cited in the draft"
             -> "web"
      [] OTHER -> "none"

\* the conditions of C18 that hold, in the order C18 lists them
ConditionsThatHold ==
    (IF \/ word_count < 1000 \/ word_count > 2000
        \/ 10 * word_count < 9 * target_word_count
        \/ 10 * word_count > 11 * target_word_count
     THEN <<"word count">> ELSE <<>>)
    \o (IF tracking.unique_sources_count < 3 THEN <<"diversity">> ELSE <<>>)
    \o (IF compliance_score < 70 THEN <<"compliance">> ELSE <<>>)
    \o (IF tracking.citation_count = 0 THEN <<"citations">> ELSE <<>>)
    \o (IF /\ enable_web_search
           /\ \A i \in 1..Len(tracking.sources_used) :
                  tracking.sources_used[i].source_type # "web"
        THEN <<"web">> ELSE <<>>)

\* C18: the warning of a draft artifact is None iff none of the five
\* conditions holds (word count out of the acceptable range,
\* unique_sources_count < 3, compliance score < 0.7, citation_count = 0, web
\* search enabled and no web source among sources_used); otherwise it is the
\* "; "-joined list of exactly the messages of the conditions that hold, in
\* that order.
C18_WarningListsConditions ==
    pc = "done" =>
        LET messages == SplitChar(warning_text, "; ")
        IN  IF ConditionsThatHold = <<>>
            THEN warning_text = NoneStr
            ELSE /\ warning_text # NoneStr
                 /\ Len(messages) = Len(ConditionsThatHold)
                 /\ \A k \in 1..Len(messages) :
                        MessageKind(messages[k]) = ConditionsThatHold[k]

\* a draft artifact without a warning, produced with web search enabled
C18_Witness ==
    /\ pc = "done"
    /\ enable_web_search
    /\ warning_text = NoneStr
    /\ word_count >= 1000
    /\ tracking.unique_sources_count >= 3

(***************************************************************************)
(* Claims about evidence retrieved during generation (SpecDraft)           *)
(***************************************************************************)
\* C19: evidence the generator retrieves through the archive_retrieval tool
\* during generation is merged into the numbered source list before citation
\* tracking: every number under which a tool result showed a record resolves,
\* in the list track_source_usage and expand_citations use, to that record.
C19_ToolResultsResolve ==
    pc \in {"track", "expand", "score", "warn", "done"} =>
        \A i \in 1..Len(tool_results) :
            /\ i <= Len(sources)
            /\ sources[i].title = tool_results[i].title
            /\ sources[i].source = tool_results[i].source


(***************************************************************************)
(* Claims about the service functions and the endpoints (SpecService)      *)
(***************************************************************************)
\* C11: in generate_ideas, generate_outline and generate_draft, whenever the
\* relevance filter keeps no node, the returned result carries the
\* explanatory message in place of generated content (ideas: an empty list
\* and num_ideas 0), an empty source_nodes list and a warning that is not
\* None and equals the filter's warning; the generator's text is not in it.
C11_InsufficientEvidenceResult ==
    (/\ task \in ArchiveTasks
     /\ pc \in {"service_done", "answered"}
     /\ result.kind = "returned"
     /\ Len(filter_result.filtered_nodes) = 0)
    => LET value == result.value
           warning == filter_result.warning
       IN  /\ value.source_nodes = <<>>
           /\ value.warning = warning
           /\ warning # NoWarning
           /\ CASE task = "generate_ideas" ->
                       value.ideas = PyList(<<>>) /\ value.num_ideas = 0
                [] task = "generate_outline" ->
                       /\ value.outline.kind = "insufficient"
                       /\ value.outline.warning = warning
                [] task = "generate_draft" ->
                       /\ value.draft.kind = "insufficient"
                       /\ value.draft.warning = warning

\* generate_outline returned after the generator wrote a text from
\* candidates the filter then rejected
C11_Witness ==
    /\ task = "generate_outline"
    /\ pc = "service_done"
    /\ result.kind = "returned"
    /\ Len(source_nodes) = 2
    /\ Len(filter_result.filtered_nodes) = 0
    /\ response = GeneratedText
    /\ result.value.outline.kind = "insufficient"

\* C12: in the archive-only tasks the relevance filter runs before the
\* generation capability is invoked: no generation has been invoked while the
\* filter has not run, generation is never invoked when the retrieved
\* candidates are empty or all below the threshold, and a generation call is
\* given only candidates that pass the filter.
C12_FilterBeforeGeneration ==
    task \in ArchiveTasks =>
        \A k \in 1..Len(calls) :
            calls[k].capability = "generation" =>
                /\ pc # "filter"
                /\ Len(calls[k].given) > 0
                /\ \A j \in 1..Len(calls[k].given) :
                       calls[k].given[j].score >= MIN_RELEVANCE_SCORE

\* C13: for every request with an empty required field (topic for ideas;
\* headline or thesis for outline; headline, thesis or outline for the agent
\* draft; topic or outline for the legacy draft), the service raises a
\* validation error and no capability has been invoked.
C13_ValidationBeforeCapabilities ==
    (/\ task \in Tasks
     /\ pc # "validate"
     /\ CASE task = "generate_ideas" -> request.topic = ""
          [] task = "generate_outline" ->
                 request.headline = "" \/ request.thesis = ""
          [] task = "generate_outline_with_agent" ->
                 request.headline = "" \/ request.thesis = ""
          [] task = "generate_draft" ->
                 request.topic = "" \/ request.outline = ""
          [] task = "generate_draft_with_agent" ->
                 \/ request.headline = "" \/ request.thesis = ""
                 \/ request.outline = "")
    => /\ result.kind = "raised"
       /\ result.error.type = "ValueError"
       /\ result.error.origin = "validation"
       /\ calls = <<>>

\* a draft request whose only empty field is the outline was refused
C13_Witness ==
    /\ task = "generate_draft_with_agent"
    /\ pc = "service_done"
    /\ request.headline # "" /\ request.thesis # "" /\ request.outline = ""
    /\ result.kind = "raised"
    /\ result.error.message = "Outline cannot be empty"
    /\ calls = <<>>

\* C14: at each endpoint a request ends as 200, as 400 carrying the
\* validation message (only when the service raised a validation error), or
\* as 500 with the fixed generic message (every other failure); a validation
\* error is never reported as 500 and another failure never as 400.
C14_StatusByFailureKind ==
    pc = "answered" =>
        IF result.kind = "returned" THEN http.status = 200
        ELSE IF result.error.origin = "validation"
        THEN http.status = 400 /\ http.detail = result.error.message
        ELSE /\ http.status = 500
             /\ http.detail = GenericDetail(task)
             /\ http.detail # result.error.message

\* C15: in generate_ideas, whenever the filter kept a node and the
\* generator's output is not valid JSON, or is JSON that is not an object
\* with an 'ideas' list, the call returns normally with ideas = [],
\* num_ideas = 0 and a warning that is not None.
C15_MalformedOutputRecovered ==
    (/\ task = "generate_ideas"
     /\ pc \in {"service_done", "answered"}
     /\ response \in {Prose, JsonArray, JsonEmptyObject, JsonIdeasNull,
                      JsonIdeasString}
     /\ filter_result # TypeError
     /\ Len(filter_result.filtered_nodes) > 0)
    => /\ result.kind = "returned"
       /\ result.value.ideas = PyList(<<>>)
       /\ result.value.num_ideas = 0
       /\ result.value.warning # NoWarning

\* C16: whenever the retrieval, web-search or generation backend raises
\* during a request, the request ends in a fatal error, never in a normal
\* result, and the failed capability is not invoked again in that request.
C16_CapabilityFailureIsFatal ==
    /\ \A k \in 1..Len(calls) :
           ~calls[k].ok =>
               \A j \in (k + 1)..Len(calls) :
                   calls[j].capability # calls[k].capability
    /\ (/\ pc \in {"service_done", "answered"}
        /\ \E k \in 1..Len(calls) : ~calls[k].ok)
       => result.kind = "raised"

\* C17: a draft request with non-empty headline, thesis and outline ends in
\* a fatal failure only when an external capability failed.
C17_DraftFatalOnlyOnCapabilityFailure ==
    (/\ task = "generate_draft_with_agent"
     /\ pc \in {"service_done", "answered"}
     /\ request.headline # "" /\ request.thesis # "" /\ request.outline # ""
     /\ result.kind = "raised")
    => \E k \in 1..Len(calls) : ~calls[k].ok

\* C20: when an outline request sets enable_web_search to false, the
\* web-search capability is not invoked and the returned sources hold no
\* record of source_type 'web'.
C20_WebSearchOnlyWhenEnabled ==
    (task = "generate_outline_with_agent" /\ ~request.enable_web_search)
    => /\ \A k \in 1..Len(calls) : calls[k].capability # "web_search"
       /\ result.kind = "returned" =>
              \A i \in 1..Len(result.value.sources) :
                  result.value.sources[i].source_type # "web"


(***************************************************************************)
(* Claims about numeric arguments and the word-count warning (SpecClamp)   *)
(***************************************************************************)
\* C21: an out-of-range numeric argument is clamped: the effective target
\* word count of generate_draft_with_agent is in [1000, 2000], that of
\* generate_draft in [500, 2000], the effective num_ideas in [1, 5]; a value
\* inside the range is used unchanged and a value outside it is replaced by
\* the nearest bound.
C21_ClampedToNearestBound ==
    (task \in ClampTasks /\ pc # "clamp") =>
        LET lo == CASE task = "generate_ideas" -> 1
                    [] task = "generate_draft" -> 500
                    [] task = "generate_draft_with_agent" -> 1000
            hi == IF task = "generate_ideas" THEN 5 ELSE 2000
        IN  effective = IF parameter < lo THEN lo
                        ELSE IF parameter > hi THEN hi ELSE parameter

\* C29: at most one word-count warning is emitted for a draft, and none iff
\* its word count w satisfies 1000 <= w <= 2000 and
\* int(0.9*t) <= w <= int(1.1*t) for the clamped target t.
C29_OneWordCountWarning ==
    pc = "warned" =>
        LET messages == SplitChar(warning_text, "; ")
            t == effective
            inside == /\ 1000 <= word_count /\ word_count <= 2000
                      /\ (9 * t) \div 10 <= word_count
                      /\ word_count <= (11 * t) \div 10
        IN  /\ inside <=> warning_text = NoneStr
            /\ ~inside =>
                  /\ Len(messages) = 1
                  /\ MessageKind(messages[1]) = "word count"
            /\ word_count < 1000 =>
                  messages[1][1] = "Word count below minimum: "

\* a draft of 950 words for a target of 1000: inside the band of 10%, and
\* warned for being below the minimum
C29_Witness ==
    /\ pc = "warned"
    /\ effective = 1000 /\ parameter < 1000
    /\ word_count = 950
    /\ warning_text[1] = "Word count below minimum: "


(***************************************************************************)
(* Claims about the number of ideas (SpecService)                          *)
(***************************************************************************)
\* C30: every result generate_ideas returns has num_ideas = len(ideas) and
\* num_ideas <= the clamped number of ideas requested, whether the evidence
\* was insufficient, the output unparsable, or the output parsed.
C30_NumIdeasWithinRequest ==
    (/\ task = "generate_ideas"
     /\ pc \in {"service_done", "answered"}
     /\ result.kind = "returned")
    => /\ result.value.num_ideas = PyLen(result.value.ideas)
       /\ result.value.num_ideas <= clamp_num_ideas(request.num_ideas)


C24_ListFixedBeforePrompt ==
    /\ [][(pc \in {"build_prompt", "generate", "track", "expand", "score", "warn"}
               => (sources' = sources))]_vars
    /\ [](PromptBuilt =>
              /\ Len(sources_text) = Len(sources)
              /\ \A i \in 1..Len(sources) :
                     sources_text[i].title = sources[i].title)
    /\ [](pc \in {"expand", "score", "warn", "done"} =>
              \A k \in 1..Len(tracking.sources_used) :
                  LET used == tracking.sources_used[k]
                      n == used.citation_number
                  IN  /\ n \in 1..Len(sources)
                      /\ \A f \in DOMAIN sources[n] \ {"citation_number"} :
                             used[f] = sources[n][f])

\* a finished draft that cites a web source and a supplied source
C24_Witness ==
    /\ pc = "done"
    /\ Len(web_sources) >= 1
    /\ Len(tracking.sources_used) >= 2
    /\ draft_expanded # draft

C26_WebSourcesNumberedFirst ==
    PromptBuilt =>
        LET k == Len(web_sources)
        IN  /\ ~enable_web_search => k = 0
            /\ Len(sources_text) = k + Len(request_sources)
            /\ \A i \in 1..k :
                   /\ sources_text[i].number = i
                   /\ sources_text[i].title = web_sources[i].title
                   /\ sources_text[i].type = "web"
            /\ \A i \in 1..Len(request_sources) :
                   /\ sources_text[k + i].number = k + i
                   /\ sources_text[k + i].title = request_sources[i].title
                   /\ sources[k + i] = request_sources[i]

\* a prompt with two web sources ahead of two supplied sources
C26_Witness ==
    /\ pc = "generate"
    /\ enable_web_search
    /\ Len(web_sources) = 2
    /\ Len(request_sources) = 2
    /\ sources_text[3].title = request_sources[1].title

(***************************************************************************)
(* The index handle (retriever.py 56-85, 122-163; ingestion.py 126-173)    *)
(*                                                                         *)
(* Calls run on threads; a thread switch can fall between any two          *)
(* statements, so get_global_index and clear_collection are one action per *)
(* statement that reads or writes _index or the collection.  An index is   *)
(* its position in handles.                                                *)
(***************************************************************************)
Threads == {1, 2}
MaxCalls == 2

IdleThread ==
    [op |-> "none", pc |-> "idle", n |-> 0, index |-> NoneVal, k |-> 0,
     seen |-> {}, returned |-> "nothing", value |-> NoneVal]

ReturnedTrue == {k \in 1..Len(clears) : clears[k] = "True"}

\* get_index(): a new VectorStoreIndex on every call.
get_index(by) == Append(handles, [by |-> by, begun |-> Len(clears)])

InitIndex ==
    /\ pc = "index"
    /\ CiteIdle /\ ScoreIdle /\ RequestIdle /\ FilterIdle /\ WarningIdle
    /\ ServiceIdle /\ ClampIdle /\ archive_output = <<>>
    /\ _index = NoneVal
    /\ handles = <<>>
    /\ clears = <<>>
    /\ collection_exists \in BOOLEAN
    /\ threads = [t \in Threads |-> IdleThread]

IndexUnchanged ==
    UNCHANGED <<pc, citeVars, scoreVars, requestVars, filterVars, warningVars,
                serviceVars, clampVars, archive_output>>

CanCall(t) == threads[t].pc = "idle" /\ threads[t].n < MaxCalls

Begin(t, op, at) ==
    [threads[t] EXCEPT !.op = op, !.pc = at, !.n = @ + 1, !.index = NoneVal,
                       !.k = 0, !.seen = ReturnedTrue,
                       !.returned = "nothing", !.value = NoneVal]

\* get_query_engine (75-85), called by generate_ideas, generate_outline,
\* generate_draft and the archive_retrieval tool: index = get_index().
GetQueryEngine(t) ==
    /\ pc = "index" /\ CanCall(t)
    /\ handles' = get_index("get_query_engine")
    /\ threads' = [threads EXCEPT ![t] =
           [Begin(t, "get_query_engine", "idle") EXCEPT
               !.returned = "engine", !.value = Len(handles) + 1]]
    /\ UNCHANGED <<_index, clears, collection_exists>>
    /\ IndexUnchanged

CallGetGlobalIndex(t) ==
    /\ pc = "index" /\ CanCall(t)
    /\ threads' = [threads EXCEPT ![t] = Begin(t, "get_global_index", "check")]
    /\ UNCHANGED <<_index, handles, clears, collection_exists>>
    /\ IndexUnchanged

\* line 128: if _index is None
GlobalIndexCheck(t) ==
    /\ pc = "index" /\ threads[t].pc = "check"
    /\ threads' = [threads EXCEPT ![t].pc =
           IF _index = NoneVal THEN "create" ELSE "return"]
    /\ UNCHANGED <<_index, handles, clears, collection_exists>>
    /\ IndexUnchanged

\* line 129, right-hand side: get_index()
GlobalIndexCreate(t) ==
    /\ pc = "index" /\ threads[t].pc = "create"
    /\ handles' = get_index("get_global_index")
    /\ threads' = [threads EXCEPT ![t].pc = "assign",
                                  ![t].index = Len(handles) + 1]
    /\ UNCHANGED <<_index, clears, collection_exists>>
    /\ IndexUnchanged

\* line 129, the store to the global
GlobalIndexAssign(t) ==
    /\ pc = "index" /\ threads[t].pc = "assign"
    /\ _index' = threads[t].index
    /\ threads' = [threads EXCEPT ![t].pc = "return"]
    /\ UNCHANGED <<handles, clears, collection_exists>>
    /\ IndexUnchanged

\* line 130: return _index, read again from the global
GlobalIndexReturn(t) ==
    /\ pc = "index" /\ threads[t].pc = "return"
    /\ threads' = [threads EXCEPT ![t].pc = "idle",
                                  ![t].returned = "index",
                                  ![t].value = _index]
    /\ UNCHANGED <<_index, handles, clears, collection_exists>>
    /\ IndexUnchanged

\* ingestion.py 172-173: index = get_global_index(); index.insert_nodes(nodes)
\* creates the collection when it is missing (retriever.py 41-42).
InsertNodes(t) ==
    /\ pc = "index" /\ threads[t].pc = "idle"
    /\ threads[t].returned = "index" /\ threads[t].value # NoneVal
    /\ collection_exists' = TRUE
    /\ threads' = [threads EXCEPT ![t].returned = "inserted"]
    /\ UNCHANGED <<_index, handles, clears>>
    /\ IndexUnchanged

CallClearCollection(t) ==
    /\ pc = "index" /\ CanCall(t)
    /\ clears' = Append(clears, "running")
    /\ threads' = [threads EXCEPT ![t] =
           [Begin(t, "clear_collection", "exists") EXCEPT
               !.k = Len(clears) + 1]]
    /\ UNCHANGED <<_index, handles, collection_exists>>
    /\ IndexUnchanged

\* lines 146-149 and 158-160: the collection is listed, or return False
ClearExists(t) ==
    /\ pc = "index" /\ threads[t].pc = "exists"
    /\ IF collection_exists
       THEN /\ threads' = [threads EXCEPT ![t].pc = "delete"]
            /\ UNCHANGED clears
       ELSE /\ threads' = [threads EXCEPT ![t].pc = "idle",
                                          ![t].returned = "False"]
            /\ clears' = [clears EXCEPT ![threads[t].k] = "False"]
    /\ UNCHANGED <<_index, handles, collection_exists>>
    /\ IndexUnchanged

\* line 151: client.delete_collection
ClearDelete(t) ==
    /\ pc = "index" /\ threads[t].pc = "delete"
    /\ collection_exists' = FALSE
    /\ threads' = [threads EXCEPT ![t].pc = "reset"]
    /\ UNCHANGED <<_index, handles, clears>>
    /\ IndexUnchanged

\* lines 154-155: global _index; _index = None
ClearReset(t) ==
    /\ pc = "index" /\ threads[t].pc = "reset"
    /\ _index' = NoneVal
    /\ threads' = [threads EXCEPT ![t].pc = "ret_true"]
    /\ UNCHANGED <<handles, clears, collection_exists>>
    /\ IndexUnchanged

\* line 157: return True
ClearReturn(t) ==
    /\ pc = "index" /\ threads[t].pc = "ret_true"
    /\ clears' = [clears EXCEPT ![threads[t].k] = "True"]
    /\ threads' = [threads EXCEPT ![t].pc = "idle", ![t].returned = "True"]
    /\ UNCHANGED <<_index, handles, collection_exists>>
    /\ IndexUnchanged

NextIndex ==
    \E t \in Threads :
        \/ GetQueryEngine(t)
        \/ CallGetGlobalIndex(t)
        \/ GlobalIndexCheck(t)
        \/ GlobalIndexCreate(t)
        \/ GlobalIndexAssign(t)
        \/ GlobalIndexReturn(t)
        \/ InsertNodes(t)
        \/ CallClearCollection(t)
        \/ ClearExists(t)
        \/ ClearDelete(t)
        \/ ClearReset(t)
        \/ ClearReturn(t)

SpecIndex == InitIndex /\ [][NextIndex]_vars

(***************************************************************************)
(* Claims about the index handle (SpecIndex)                               *)
(***************************************************************************)
\* C22: over generation requests with no clear_collection in between, the
\* index is created by the first request that needs it and by no later one:
\* while no clear_collection call has begun, get_index has run at most once.
C22_CreatedOnceAndReused ==
    clears = <<>> => Len(handles) <= 1

\* C28: under every interleaving of get_global_index and clear_collection,
\* get_global_index never returns None, and a get_global_index call that
\* began after a clear_collection call returned True never returns an index
\* created before that clear_collection call began.
C28_NeverNoneNorStale ==
    \A t \in Threads :
        threads[t].returned = "index" =>
            /\ threads[t].value # NoneVal
            /\ \A k \in threads[t].seen : handles[threads[t].value].begun >= k

(***************************************************************************)
(* The archive tool end to end: archive_retrieval_tool_fn (tools.py 12-66) *)
(* prints the kept candidates as text, extract_sources_from_tool_output    *)
(* (outline_agent.py 31-105) reads the text back, track_source_usage       *)
(* numbers the records.                                                    *)
(*                                                                         *)
(* The text is a sequence of tokens: the labels the tool prints, "\n", the *)
(* characters of a number, and the tokens of a title or of an article.  A  *)
(* title or an article is free text: it may hold the token "---" or a      *)
(* label.  Texts are shorter than the 500 characters of line 52.           *)
(***************************************************************************)
MaxCandidates == 2
MaxCitations == 3

Archive == <<"A", "r", "c", "h", "i", "v", "e">>
Separator == "---"
NumberChars == Digits \cup {"."}
\* tokens in which re.IGNORECASE finds "relevance"
RelevanceWords == {"[Relevance:", "Relevance:", "Relevance Score:", "Relevance"}

\* f"{score:.3f}" of a score given in hundredths
FormatRelevance(h) ==
    IntToStr(h \div 100) \o <<".", DigitChar((h \div 10) % 10), DigitChar(h % 10), "0">>

\* float(s) in hundredths, for digits with at most one point; the tool
\* prints a third decimal that is 0
ParseFloat(chars) ==
    LET dot == FirstIn(chars, {"."}, 1)
        whole == IF dot = 0 THEN chars ELSE SubSeq(chars, 1, dot - 1)
        frac == IF dot = 0 THEN <<>> ELSE SubSeq(chars, dot + 1, Len(chars))
        d(i) == IF i <= Len(frac) THEN DigitVal(frac[i]) ELSE 0
    IN  100 * ParseInt(whole) + 10 * d(1) + d(2)

\* s.strip()
RECURSIVE Strip(_)
Strip(t) ==
    IF Len(t) = 0 THEN t
    ELSE IF t[1] \in Whitespace THEN Strip(Tail(t))
    ELSE IF t[Len(t)] \in Whitespace THEN Strip(SubSeq(t, 1, Len(t) - 1))
    ELSE t

\* the result of lines 40-56 for the i-th kept node
ArchiveResult(i, node) ==
    <<"\n", "Source">> \o IntToStr(i)
        \o <<"[Relevance:">> \o FormatRelevance(NodeScore(node)) \o <<"]", "\n">>
        \o <<"Title:">> \o DictGet(node, "title", Unknown) \o <<"\n">>
        \o <<"Source:">> \o Unknown \o <<"\n">>
        \o <<"Date:">> \o Unknown \o <<"\n">>
        \o <<"URL:">> \o NotApplicable \o <<"\n", "\n">>
        \o <<"Content:", "\n">> \o node.text \o <<"...", "\n", "\n">>
        \o <<Separator, "\n">>

\* "\n".join(results)
RECURSIVE JoinResults(_, _)
JoinResults(nodes, i) ==
    IF i > Len(nodes) THEN <<>>
    ELSE ArchiveResult(i, nodes[i])
             \o (IF i < Len(nodes) THEN <<"\n">> ELSE <<>>)
             \o JoinResults(nodes, i + 1)

\* the sentences of lines 36, 60 and 66; none holds a label or "---"
NoRelevantArticles == <<"No relevant articles found in archive.">>
ErrorRetrieving == <<"Error retrieving from archive:">>
WarningPrefix == <<"WARNING:", "Limited relevant content found", "\n", "\n">>

\* archive_retrieval_tool_fn for the nodes the query returned, given what
\* filter_by_relevance(response.source_nodes) gave
archive_retrieval_tool_fn(filtered) ==
    IF filtered = TypeError THEN ErrorRetrieving
    ELSE IF Len(filtered.filtered_nodes) = 0 THEN NoRelevantArticles
    ELSE (IF filtered.warning # NoWarning THEN WarningPrefix ELSE <<>>)
             \o JoinResults(filtered.filtered_nodes, 1)

\* re.search(label + r'\s*(.+)', block): the rest of the line after the
\* first occurrence of the label that has one, stripped; NoMatch if none
FieldAfter(block, label) ==
    LET starts == {i \in 1..Len(block) :
                       /\ block[i] = label
                       /\ \E j \in (i + 1)..Len(block) : block[j] \notin Whitespace}
    IN  IF starts = {} THEN NoMatch
        ELSE LET i == FirstOf(starts)
                 j == FirstOf({m \in (i + 1)..Len(block) : block[m] \notin Whitespace})
                 nl == FirstIn(block, {"\n"}, j)
             IN  Strip(SubSeq(block, j, IF nl = 0 THEN Len(block) ELSE nl - 1))

\* the number a pattern of lines 55-59 finds after a label: a run of digits
\* and points, followed by "]" when the pattern closes the bracket
NumberAfter(block, label, closed) ==
    LET starts == {i \in 1..(Len(block) - 1) :
                       /\ block[i] = label
                       /\ block[i + 1] \in NumberChars
                       /\ closed =>
                            LET e == RunEnd(block, NumberChars, i + 1)
                            IN  e < Len(block) /\ block[e + 1] = "]"}
    IN  IF starts = {} THEN NoMatch
        ELSE LET i == FirstOf(starts)
             IN  SubSeq(block, i + 1, RunEnd(block, NumberChars, i + 1))

\* lines 55-61
RelevanceOfBlock(block) ==
    LET first == NumberAfter(block, "[Relevance:", TRUE)
        second == NumberAfter(block, "Relevance Score:", FALSE)
        third == NumberAfter(block, "Relevance:", FALSE)
        found == IF first # NoMatch THEN first
                 ELSE IF second # NoMatch THEN second ELSE third
    IN  IF found = NoMatch THEN NoneVal ELSE ParseFloat(found)

\* line 76: r'Content:\s*(.+?)(?:Relevance|---|\Z)' with DOTALL, stripped
ContentOfBlock(block) ==
    LET i == FirstIn(block, {"Content:"}, 1)
        j == IF i = 0 THEN 0
             ELSE FirstOf({m \in (i + 1)..Len(block) : block[m] \notin Whitespace})
        stop == IF j = 0 THEN 0 ELSE FirstIn(block, RelevanceWords, j + 1)
    IN  IF i = 0 THEN NoMatch
        ELSE IF j = 0 THEN <<>>
        ELSE Strip(SubSeq(block, j, IF stop = 0 THEN Len(block) ELSE stop - 1))

\* lines 64-97 for a block of the archive tool's output
SourceOfArchiveBlock(block) ==
    LET title == FieldAfter(block, "Title:")
        source == FieldAfter(block, "Source:")
        date == FieldAfter(block, "Date:")
        url == FieldAfter(block, "URL:")
        content == ContentOfBlock(block)
    IN  [title |-> IF title = NoMatch THEN Unknown ELSE title,
         source |-> IF source = NoMatch THEN Archive ELSE source,
         source_type |-> "archive",
         date |-> IF date = NoMatch THEN Unknown ELSE date,
         url |-> IF url = NoMatch THEN NotApplicable ELSE url,
         relevance_score |-> RelevanceOfBlock(block),
         text |-> IF content = NoMatch THEN <<>> ELSE content]

\* lines 44-100: tool_output.split("---"), blank blocks skipped, a record
\* kept when it has a title or a text
RECURSIVE SourcesOfArchiveBlocks(_)
SourcesOfArchiveBlocks(blocks) ==
    IF Len(blocks) = 0 THEN <<>>
    ELSE LET source == SourceOfArchiveBlock(Head(blocks))
         IN  (IF NotBlank(Head(blocks))
                    /\ (source.title # Unknown \/ source.text # <<>>)
              THEN <<source>> ELSE <<>>)
                 \o SourcesOfArchiveBlocks(Tail(blocks))

\* extract_sources_from_tool_output(tool_output, "archive") on the text
extract_archive_sources(tool_output) ==
    SortByScoreDesc(SourcesOfArchiveBlocks(SplitChar(tool_output, Separator)))

\* candidates: the five scores of the scenario, a candidate without a
\* title, one whose title holds a dash rule, one whose article does
CandidatePool ==
    { [title |-> <<"A">>, text |-> <<"x">>, score |-> 91],
      [title |-> <<"B">>, text |-> <<"y">>, score |-> 80],
      [title |-> <<"C">>, text |-> <<"z">>, score |-> 60],
      [text |-> <<"x">>, score |-> 85],
      [title |-> <<"A", Separator, "B">>, text |-> <<"x">>, score |-> 90],
      [title |-> <<"D">>, text |-> <<"p", "\n", Separator, "\n", "q">>,
       score |-> 76] }

ScenarioCandidates ==
    << [title |-> <<"A">>, text |-> <<"x">>, score |-> 91],
       [title |-> <<"B">>, text |-> <<"y">>, score |-> 80],
       [title |-> <<"C">>, text |-> <<"z">>, score |-> 60],
       [title |-> <<"D">>, text |-> <<"x">>, score |-> 40],
       [title |-> <<"E">>, text |-> <<"x">>, score |-> 20] >>

CitationPieces == {<<"[", "1", "]">>, <<"[", "2", "]">>, <<"[", "3", "]">>}
RECURSIVE CitingTexts(_)
CitingTexts(n) ==
    IF n = 0 THEN {<<>>}
    ELSE LET shorter == CitingTexts(n - 1)
         IN  shorter \cup {s \o p : s \in shorter, p \in CitationPieces}

InitArchive ==
    /\ pc = "archive_input"
    /\ source_nodes \in
           SeqsUpTo(CandidatePool, MaxCandidates) \cup {ScenarioCandidates}
    /\ min_score = NoneVal
    /\ filter_result = NoneVal
    /\ archive_output = <<>>
    /\ CiteIdle /\ ScoreIdle /\ RequestIdle /\ WarningIdle /\ ServiceIdle
    /\ ClampIdle /\ IndexIdle

\* tools.py 29-62: the query's nodes are filtered with the default
\* threshold and printed
ArchiveRetrievalTool ==
    /\ pc = "archive_input"
    /\ filter_result' = filter_by_relevance(source_nodes, NoneVal)
    /\ archive_output' = archive_retrieval_tool_fn(filter_result')
    /\ pc' = "archive_printed"
    /\ UNCHANGED <<source_nodes, min_score, citeVars, scoreVars, requestVars,
                   warningVars, serviceVars, clampVars, indexVars>>

ExtractArchiveSources ==
    /\ pc = "archive_printed"
    /\ sources' = extract_archive_sources(archive_output)
    /\ pc' = "archive_extracted"
    /\ UNCHANGED <<draft, tracking, draft_expanded, scoreVars, requestVars,
                   filterVars, warningVars, serviceVars, laterVars>>

\* track_source_usage(text, sources) for a generated text
TrackArchiveSources ==
    /\ pc = "archive_extracted"
    /\ draft' \in CitingTexts(MaxCitations)
    /\ tracking' = track_source_usage(draft', sources)
    /\ pc' = "archive_tracked"
    /\ UNCHANGED <<sources, draft_expanded, scoreVars, requestVars,
                   filterVars, warningVars, serviceVars, laterVars>>

NextArchive ==
    \/ ArchiveRetrievalTool
    \/ ExtractArchiveSources
    \/ TrackArchiveSources

SpecArchive == InitArchive /\ [][NextArchive]_vars

(***************************************************************************)
(* Claim about the archive tool end to end (SpecArchive)                   *)
(***************************************************************************)
\* the kept candidates in descending score order, equal scores in the
\* order of retrieval
KeptByScore ==
    SortByScoreDesc(
        [k \in 1..Len(ExpectedKept(source_nodes, MIN_RELEVANCE_SCORE)) |->
            [title |-> DictGet(ExpectedKept(source_nodes, MIN_RELEVANCE_SCORE)[k],
                               "title", Unknown),
             relevance_score |->
                 ExpectedKept(source_nodes, MIN_RELEVANCE_SCORE)[k].score]])

CitesExactly(text, n) == SeqToSet(extract_source_numbers(text)) = 1..n

\* C23: the candidates filtered with min_score, printed by the archive
\* tool, read back by extract_sources_from_tool_output and tracked give a
\* numbered list that is exactly the kept candidates in descending score
\* order, numbered 1..K; for a text that cites every number of 1..K and no
\* other, citation_count is the number of [N] occurrences,
\* unique_sources_count is K, sources_used has length K and
\* sources_available is empty.
C23_EndToEnd ==
    pc = "archive_tracked" =>
        LET K == Len(KeptByScore)
        IN  /\ Len(sources) = K
            /\ \A i \in 1..Min(K, Len(sources)) :
                   /\ sources[i].relevance_score = KeptByScore[i].relevance_score
                   /\ sources[i].title = KeptByScore[i].title
            /\ CitesExactly(draft, K) =>
                   /\ tracking.citation_count = Len(extract_source_numbers(draft))
                   /\ tracking.unique_sources_count = K
                   /\ Len(tracking.sources_used) = K
                   /\ tracking.sources_available = <<>>


=============================================================================
